---- MODULE Spec2Model ----
(***************************************************************************)
(* GammaTool: the preset store (src/src/preset_manager.py), the hotkey     *)
(* manager (src/src/hotkey_manager.py), the hotkey validator               *)
(* (src/src/utils.py) and the settings of the gamma engine                 *)
(* (src/src/gamma_engine.py).                                              *)
(*                                                                         *)
(* PresetManager keeps an insertion-ordered dict name -> preset dict, a    *)
(* current-preset pointer and a JSON document on disk that is rewritten    *)
(* after every mutating operation.  A preset dict holds four settings and  *)
(* a hotkey; its "rgb" entry is a nested dict, i.e. a reference to an      *)
(* object that a shallow copy shares.  The model therefore keeps a heap of *)
(* rgb objects, and a client that holds the value load_preset returned.    *)
(*                                                                         *)
(* The gamma ramp is computed by _calculate_gamma_ramp in Python floats;   *)
(* the model computes it in IEEE 754 binary64 arithmetic on natural        *)
(* numbers kept as sequences of limbs.                                     *)
(*                                                                         *)
(* GammaEngine() probes the displays for one that takes a gamma ramp.      *)
(* GammaTool (src/src/main.py) binds the hotkeys to handlers that nudge    *)
(* the brightness and the contrast, next to the sliders and the debounce   *)
(* timer of the MainWindow (src/src/main_window.py) and the display        *)
(* settings of the ConfigManager (src/src/config_manager.py); the handlers *)
(* run in the thread of the keyboard library, the window in the UI thread. *)
(*                                                                         *)
(* Each component has its own specification (Spec, SpecRange, SpecHotkey,  *)
(* SpecValidate, SpecGamma, SpecSnapshot, SpecRamp, SpecPure, SpecProbe,   *)
(* SpecNudge, SpecThreads); the variables of the other components stay as  *)
(* constructed in it.                                                      *)
(***************************************************************************)
EXTENDS Integers, Sequences, FiniteSets, TLC

VARIABLES
    presets,          \* PresetManager.presets: sequence of [name, val], in dict order
    heap,             \* the nested rgb dict objects: ref -> [red, green, blue]
    current_preset,   \* PresetManager.current_preset: a name or None
    file,             \* the content of presets_file on disk
    held,             \* the dict the last call returned to the client, as the client has it now
    last,             \* the last call: [op, name, arg, ret, write]
    failures,         \* number of failed writes of presets_file so far
    streak,           \* successive switch_to_next_preset calls counted from current_preset = None
    saved,            \* name -> the complete settings last passed to save_preset (history)
    hotkeys,          \* HotkeyManager._hotkeys: sequence of [name, val] = [combo, callback], in dict order
    is_listening,     \* HotkeyManager._is_listening
    listeners,        \* the keyboard library's registry: combo -> callbacks hooked under it
    hk_last,          \* the last HotkeyManager call: [op, combo, callback, ret, attempted, os_ok, bound, prev]
    v_hotkey,         \* the argument of validate_hotkey, as hotkey.split('+')
    v_result,         \* what validate_hotkey returned for it, NoneValue before the call
    current_brightness,    \* GammaEngine.current_brightness
    current_contrast,      \* GammaEngine.current_contrast
    current_grayscale,     \* GammaEngine.current_grayscale
    current_rgb,           \* GammaEngine.current_rgb
    gamma_ramp_supported,  \* GammaEngine._gamma_ramp_supported
    default_ramp,          \* GammaEngine._default_ramp: "saved" or None
    primary_device_name,   \* GammaEngine._primary_device_name: a display name or None
    g_last,                \* the last GammaEngine call: [op, arg, ret, calls, os, prev]
    g_held,                \* the dict get_current_settings returned, as its caller has it now
    ramp_args,        \* the arguments (brightness, contrast, grayscale, r, g, b) of _calculate_gamma_ramp
    ramp_index,       \* the index i of the ramp entry looked at
    ramp_entry,       \* [Red, Green, Blue] at ramp_index of the RAMP returned, NoneValue before the call
    ramp_seen,        \* arguments and index -> what the first call with them returned (history)
    ramp_repeat,      \* the last call had arguments seen before (history)
    os_default,       \* what the OS answers GammaEngine() for the default display: one of OsOutcomes
    displays,         \* what the OS answers for the displays it lists, in the order of the list
    os_save,          \* what the OS answers _save_default_ramp
    probe_calls,      \* the calls on device contexts GammaEngine() made (history)
    constructed,      \* GammaEngine() has returned
    config,           \* ConfigManager.config['display']: brightness, contrast, grayscale, rgb
    config_file,      \* the display settings in config.json on disk
    sliders,          \* the values of the sliders of the MainWindow
    debounce_timer,   \* MainWindow._debounce_timer is running
    n_last,           \* the last call of a handler of GammaTool: [op, delta, current]
    t_pc,             \* caller -> where it is in the engine: "idle", "acquire", "set", "release"
    t_op,             \* caller -> the engine call it is in, None when idle
    t_os              \* caller -> what SetDeviceGammaRamp answered it, None before

preset_vars == <<presets, heap, current_preset, file, held, last, failures, streak, saved>>
hotkey_vars == <<hotkeys, is_listening, listeners, hk_last>>
validate_vars == <<v_hotkey, v_result>>
gamma_vars == <<current_brightness, current_contrast, current_grayscale, current_rgb,
                gamma_ramp_supported, default_ramp, primary_device_name, g_last>>

snapshot_vars == <<g_held>>

ramp_vars == <<ramp_args, ramp_index, ramp_entry, ramp_seen, ramp_repeat>>

probe_vars == <<os_default, displays, os_save, probe_calls, constructed>>

nudge_vars == <<config, config_file, sliders, debounce_timer, n_last>>

thread_vars == <<t_pc, t_op, t_os>>

vars == <<preset_vars, hotkey_vars, validate_vars, gamma_vars, snapshot_vars, ramp_vars, probe_vars, nudge_vars, thread_vars>>

----------------------------------------------------------------------------
(* Bounds *)

MaxWriteFailures == 1    \* failed writes of presets_file explored per behaviour
MaxStreak == 4           \* longest counted run of successive switch_to_next_preset calls

----------------------------------------------------------------------------
(* Python values *)

None == "None"                               \* None where a str is expected
NoneValue == [type |-> "NoneType"]           \* None as a return value
Bool(b) == [type |-> "bool", b |-> b]
Dict(d) == [type |-> "dict", d |-> d]

\* d.get(k, default)
GetOr(d, k, default) == IF k \in DOMAIN d THEN d[k] ELSE default

\* The three names of the built-in presets ("默认", "夜间模式", "阅读模式").
Names == {"Default", "Night", "Reading"}

DefaultRGB == [red |-> 255, green |-> 255, blue |-> 255]

\* The names the caller saves presets under.
SaveNames == {"Night"}

\* The names the caller sets hotkeys for.
HotkeyNames == {"Night"}

\* One more object than there can be presets.
Refs == 1 .. (Cardinality(Names) + 1)

SettingKeys == {"brightness", "contrast", "grayscale", "rgb"}

\* Settings dicts a caller passes to save_preset (rgb given by value: a new dict).
S1 == [brightness |-> 150, contrast |-> 120, grayscale |-> 30,
       rgb |-> [red |-> 10, green |-> 20, blue |-> 30]]
SHotkey == [hotkey |-> "ctrl+alt+1"]

SettingsInputs == {S1, SHotkey}

\* Combos a caller passes to set_preset_hotkey ("" clears the hotkey).
HotkeyInputs == {"", "ctrl+alt+1"}

\* What the client writes into a field of the value it holds.
MutVals == {1}
TopFields == {"brightness"}
Channels == {"red"}

----------------------------------------------------------------------------
(* The ordered dict self.presets *)

get_preset_names(p) == [i \in DOMAIN p |-> p[i].name]

Keys(p) == {p[i].name : i \in DOMAIN p}

Has(p, name) == name \in Keys(p)

IndexOf(p, name) == CHOOSE i \in DOMAIN p : p[i].name = name

Lookup(p, name) == p[IndexOf(p, name)].val

\* Put, but a key that exists moves to the end
Put_at_end(p, name, val) ==
    Append(SelectSeq(p, LAMBDA e : e.name # name), [name |-> name, val |-> val])

\* self.presets[name] = val: in place when the key exists, appended otherwise
Put(p, name, val) ==
    IF Has(p, name)
    THEN [p EXCEPT ![IndexOf(p, name)] = [name |-> name, val |-> val]]
    ELSE Append(p, [name |-> name, val |-> val])

\* Del, but the entries after name go as well
Del_through_end(p, name) == SubSeq(p, 1, IndexOf(p, name) - 1)

\* del self.presets[name]
Del(p, name) ==
    LET k == IndexOf(p, name)
    IN  [i \in 1 .. (Len(p) - 1) |-> IF i < k THEN p[i] ELSE p[i + 1]]

----------------------------------------------------------------------------
(* The heap of rgb objects *)

Fresh(h) == CHOOSE r \in Refs \ DOMAIN h : \A q \in Refs \ DOMAIN h : r <= q

\* Objects nothing refers to any more are collected.  An object has no
\* identity beyond who refers to it, so the object of the i-th preset is
\* numbered i.
CollectPresets(p) == [i \in DOMAIN p |-> [p[i] EXCEPT !.val.rgb = i]]

CollectHeap(p, h) == [i \in DOMAIN p |-> h[p[i].val.rgb]]

\* a preset dict with its rgb object written out by value
Deref(h, d) == [d EXCEPT !.rgb = h[d.rgb]]

----------------------------------------------------------------------------
(* The presets file *)

NoFile == [state |-> "absent"]
Corrupt == [state |-> "corrupt"]

\* json.dump of {"current_preset": ..., "presets": ...}
Document(cur, p, h) ==
    [state |-> "doc",
     current_preset |-> cur,
     presets |-> [i \in DOMAIN p |-> [name |-> p[i].name, val |-> Deref(h, p[i].val)]]]

WriteOutcomes == {"ok", "unchanged", "truncated"}

\* the outcomes the next write may have
Outcomes == IF failures < MaxWriteFailures THEN WriteOutcomes ELSE {"ok"}

\* _save_presets: the exception of a failed write is caught and only logged
save_presets(f, cur, p, h, outcome) ==
    CASE outcome = "ok" -> Document(cur, p, h)
      [] outcome = "unchanged" -> f
      [] outcome = "truncated" -> Corrupt

\* a call that does not reach _save_presets has the outcome "none"
OutcomesOf(writes) == IF writes THEN Outcomes ELSE {"none"}

Write(f, writes, cur, p, h, outcome) ==
    IF writes THEN save_presets(f, cur, p, h, outcome) ELSE f

WriteResult(outcome) ==
    CASE outcome = "ok" -> "ok"
      [] outcome = "none" -> "none"
      [] OTHER -> "failed"

Failed(outcome) == IF outcome \in {"ok", "none"} THEN 0 ELSE 1

----------------------------------------------------------------------------
(* Construction *)

\* _create_default_presets
create_default_presets ==
    [presets |->
        << [name |-> "Default",
            val |-> [brightness |-> 100, contrast |-> 100, grayscale |-> 0,
                     rgb |-> 1, hotkey |-> ""]],
           [name |-> "Night",
            val |-> [brightness |-> 80, contrast |-> 90, grayscale |-> 0,
                     rgb |-> 2, hotkey |-> ""]],
           [name |-> "Reading",
            val |-> [brightness |-> 110, contrast |-> 105, grayscale |-> 0,
                     rgb |-> 3, hotkey |-> ""]] >>,
     heap |-> (1 :> [red |-> 255, green |-> 255, blue |-> 255]
            @@ 2 :> [red |-> 255, green |-> 200, blue |-> 150]
            @@ 3 :> [red |-> 255, green |-> 245, blue |-> 230]),
     current_preset |-> "Default"]

\* ParsedPresets, but the presets come in the opposite order
ParsedPresets_reversed(doc) ==
    [i \in DOMAIN doc.presets |->
        [name |-> doc.presets[Len(doc.presets) + 1 - i].name,
         val |-> [doc.presets[Len(doc.presets) + 1 - i].val EXCEPT !.rgb = i]]]

\* json.load: every preset gets new objects
ParsedPresets(doc) ==
    [i \in DOMAIN doc.presets |->
        [name |-> doc.presets[i].name, val |-> [doc.presets[i].val EXCEPT !.rgb = i]]]

ParsedHeap(doc) == [i \in DOMAIN doc.presets |-> doc.presets[i].val.rgb]

\* __init__ and _load_presets on the file f; outcome is that of the write
\* made when the file does not exist
load_presets(f, outcome) ==
    CASE f.state = "doc" ->
            [presets |-> ParsedPresets(f), heap |-> ParsedHeap(f),
             current_preset |-> f.current_preset, file |-> f, write |-> "none"]
      [] f.state = "absent" ->
            LET d == create_default_presets
            IN  [presets |-> d.presets, heap |-> d.heap,
                 current_preset |-> d.current_preset,
                 file |-> save_presets(f, d.current_preset, d.presets, d.heap, outcome),
                 write |-> WriteResult(outcome)]
      [] f.state = "corrupt" ->
            LET d == create_default_presets
            IN  [presets |-> d.presets, heap |-> d.heap,
                 current_preset |-> d.current_preset, file |-> f, write |-> "none"]

NoSaved == [n \in Names |-> NoneValue]

\* PresetManager(): the store as constructed over an absent or unreadable file
PresetInit ==
    \E f \in {NoFile, Corrupt} :
    \E outcome \in (IF 0 < MaxWriteFailures THEN WriteOutcomes ELSE {"ok"}) :
        LET s == load_presets(f, outcome)
        IN  /\ presets = s.presets
            /\ heap = s.heap
            /\ current_preset = s.current_preset
            /\ file = s.file
            /\ held = NoneValue
            /\ last = [op |-> "init", name |-> None, arg |-> << >>,
                       ret |-> NoneValue, write |-> s.write]
            /\ failures = (IF s.write = "failed" THEN 1 ELSE 0)
            /\ streak = 0
            /\ saved = NoSaved

----------------------------------------------------------------------------
(* Operations of PresetManager, as functions of the store *)

\* the settings of a dict, by value, when it carries all four of them
Complete(arg) ==
    IF SettingKeys \subseteq DOMAIN arg
    THEN Dict([k \in SettingKeys |-> arg[k]])
    ELSE NoneValue

\* save_preset, but a settings dict without hotkey resets the hotkey
save_preset_drops_hotkey(p, name, settings, rgbref) ==
    Put(p, name,
        [brightness |-> GetOr(settings, "brightness", 100),
         contrast |-> GetOr(settings, "contrast", 100),
         grayscale |-> GetOr(settings, "grayscale", 0),
         rgb |-> rgbref,
         hotkey |-> GetOr(settings, "hotkey", "")])

\* save_preset: the presets after self.presets[name] = {...}; rgbref is the
\* object that settings.get('rgb', {...}) evaluates to
save_preset(p, name, settings, rgbref) ==
    LET existing_hotkey == IF Has(p, name) THEN Lookup(p, name).hotkey ELSE ""
    IN  Put(p, name,
            [brightness |-> GetOr(settings, "brightness", 100),
             contrast |-> GetOr(settings, "contrast", 100),
             grayscale |-> GetOr(settings, "grayscale", 0),
             rgb |-> rgbref,
             hotkey |-> GetOr(settings, "hotkey", existing_hotkey)])

\* What save_preset returns: _save_presets catches the exception of a failed
\* write itself, so save_preset reaches "return True" whatever the outcome.
save_preset_returns(outcome) == TRUE

\* dict.copy(): a new top-level dict, the nested rgb object is shared
copy(d) == d

\* load_preset, but the pointer is set before the name is looked up
load_preset_sets_pointer_first(p, cur, name) ==
    IF Has(p, name)
    THEN [current_preset |-> name, ret |-> Dict(Lookup(p, name)), writes |-> TRUE]
    ELSE [current_preset |-> name, ret |-> NoneValue, writes |-> FALSE]

\* load_preset(name): the pointer afterwards, the value returned, and
\* whether _save_presets is called
load_preset(p, cur, name) ==
    IF Has(p, name)
    THEN [current_preset |-> name, ret |-> Dict(copy(Lookup(p, name))), writes |-> TRUE]
    ELSE [current_preset |-> cur, ret |-> NoneValue, writes |-> FALSE]

\* delete_preset, but the pointer is not cleared
delete_preset_keeps_pointer(p, cur, name) ==
    IF Has(p, name)
    THEN [presets |-> Del(p, name), current_preset |-> cur,
          ret |-> Bool(TRUE), writes |-> TRUE]
    ELSE [presets |-> p, current_preset |-> cur, ret |-> Bool(FALSE), writes |-> FALSE]

\* delete_preset, but the pointer is cleared whichever preset is deleted
delete_preset_clears_pointer(p, cur, name) ==
    IF Has(p, name)
    THEN [presets |-> Del(p, name), current_preset |-> None,
          ret |-> Bool(TRUE), writes |-> TRUE]
    ELSE [presets |-> p, current_preset |-> cur, ret |-> Bool(FALSE), writes |-> FALSE]

\* delete_preset(name)
delete_preset(p, cur, name) ==
    IF Has(p, name)
    THEN [presets |-> Del(p, name),
          current_preset |-> IF cur = name THEN None ELSE cur,
          ret |-> Bool(TRUE), writes |-> TRUE]
    ELSE [presets |-> p, current_preset |-> cur, ret |-> Bool(FALSE), writes |-> FALSE]

\* next_name, but without the wrap: after the last name comes the last name
next_name_no_wrap(p, cur) ==
    LET preset_names == get_preset_names(p)
    IN  IF cur = None \/ ~Has(p, cur)
        THEN preset_names[1]
        ELSE IF IndexOf(p, cur) < Len(preset_names)
             THEN preset_names[IndexOf(p, cur) + 1]
             ELSE preset_names[Len(preset_names)]

\* next_name, but with no current preset it starts from the end
next_name_from_end(p, cur) ==
    LET preset_names == get_preset_names(p)
    IN  IF cur = None \/ ~Has(p, cur)
        THEN preset_names[Len(preset_names)]
        ELSE preset_names[(IndexOf(p, cur) % Len(preset_names)) + 1]

\* the name switch_to_next_preset passes to load_preset (preset_names not empty)
next_name(p, cur) ==
    LET preset_names == get_preset_names(p)
    IN  IF cur = None \/ ~Has(p, cur)
        THEN preset_names[1]
        ELSE LET current_index == IndexOf(p, cur) - 1
                 next_index == (current_index + 1) % Len(preset_names)
             IN  preset_names[next_index + 1]

\* switch_to_next_preset(): nothing happens without presets, otherwise
\* load_preset does the rest
switch_to_next_preset(p, cur) ==
    IF Len(p) = 0
    THEN [current_preset |-> cur, ret |-> NoneValue, writes |-> FALSE]
    ELSE load_preset(p, cur, next_name(p, cur))

\* set_preset_hotkey, but the name is not looked up before reporting success
set_preset_hotkey_unchecked(p, name, hotkey) ==
    IF Has(p, name)
    THEN [presets |-> [p EXCEPT ![IndexOf(p, name)].val.hotkey = hotkey],
          ret |-> Bool(TRUE), writes |-> TRUE]
    ELSE [presets |-> p, ret |-> Bool(TRUE), writes |-> TRUE]

\* set_preset_hotkey(name, hotkey)
set_preset_hotkey(p, name, hotkey) ==
    IF Has(p, name)
    THEN [presets |-> [p EXCEPT ![IndexOf(p, name)].val.hotkey = hotkey],
          ret |-> Bool(TRUE), writes |-> TRUE]
    ELSE [presets |-> p, ret |-> Bool(FALSE), writes |-> FALSE]

----------------------------------------------------------------------------
(* Calls *)

Call(op, name, arg, ret, write) ==
    [op |-> op, name |-> name, arg |-> arg, ret |-> ret, write |-> write]

\* save_preset(name, settings): settings is a dict the caller has just built
\* (as MainWindow.get_current_settings does), so its rgb is a new object
SavePresetWith(inputs) ==
    \E name \in SaveNames : \E s \in inputs : \E outcome \in Outcomes :
        LET r == Fresh(heap)
            p0 == save_preset(presets, name, s, r)
            h0 == heap @@ (r :> GetOr(s, "rgb", DefaultRGB))
            p1 == CollectPresets(p0)
            h1 == CollectHeap(p0, h0)
        IN  /\ presets' = p1
            /\ heap' = h1
            /\ held' = NoneValue
            /\ file' = save_presets(file, current_preset, p1, h1, outcome)
            /\ failures' = failures + Failed(outcome)
            /\ last' = Call("save", name, s, Bool(save_preset_returns(outcome)),
                            WriteResult(outcome))
            /\ streak' = 0
            /\ saved' = [saved EXCEPT ![name] = Complete(s)]
            /\ UNCHANGED current_preset

SavePreset == SavePresetWith(SettingsInputs)

\* the effect r of load_preset(name), called by the client or by
\* switch_to_next_preset
Loaded(op, name, r) ==
    \E outcome \in OutcomesOf(r.writes) :
        /\ current_preset' = r.current_preset
        /\ file' = Write(file, r.writes, r.current_preset, presets, heap, outcome)
        /\ failures' = failures + Failed(outcome)
        /\ held' = r.ret
        /\ last' = Call(op, name, << >>, r.ret, WriteResult(outcome))
        /\ UNCHANGED <<presets, heap, saved>>

\* load_preset(name)
LoadPreset ==
    \E name \in Names :
        /\ Loaded("load", name, load_preset(presets, current_preset, name))
        /\ streak' = 0

\* delete_preset(name)
DeletePreset ==
    \E name \in Names :
        LET r == delete_preset(presets, current_preset, name)
            p1 == CollectPresets(r.presets)
            h1 == CollectHeap(r.presets, heap)
        IN  \E outcome \in OutcomesOf(r.writes) :
                /\ presets' = p1
                /\ heap' = h1
                /\ current_preset' = r.current_preset
                /\ file' = Write(file, r.writes, r.current_preset, p1, h1, outcome)
                /\ failures' = failures + Failed(outcome)
                /\ held' = NoneValue
                /\ last' = Call("delete", name, << >>, r.ret, WriteResult(outcome))
                /\ streak' = 0
                /\ saved' = IF r.writes THEN [saved EXCEPT ![name] = NoneValue] ELSE saved

\* switch_to_next_preset()
SwitchToNextPreset ==
    /\ Loaded("switch", None, switch_to_next_preset(presets, current_preset))
    /\ streak' = IF Len(presets) = 0 THEN 0
                 ELSE IF current_preset = None THEN 1
                 ELSE IF streak >= 1 /\ streak < MaxStreak THEN streak + 1
                 ELSE 0

\* set_preset_hotkey(name, hotkey)
SetPresetHotkey ==
    \E name \in HotkeyNames : \E hotkey \in HotkeyInputs :
        LET r == set_preset_hotkey(presets, name, hotkey)
            p1 == CollectPresets(r.presets)
            h1 == CollectHeap(r.presets, heap)
        IN  \E outcome \in OutcomesOf(r.writes) :
                /\ presets' = p1
                /\ heap' = h1
                /\ file' = Write(file, r.writes, current_preset, p1, h1, outcome)
                /\ failures' = failures + Failed(outcome)
                /\ held' = NoneValue
                /\ last' = Call("set_hotkey", name, [hotkey |-> hotkey], r.ret,
                                WriteResult(outcome))
                /\ streak' = 0
                /\ UNCHANGED <<current_preset, saved>>

\* The client assigns to a field of the dict load_preset returned to it:
\* settings[k] = v, or settings['rgb'][c] = v.
MutateReturned ==
    /\ held.type = "dict"
    /\ \/ \E k \in TopFields : \E v \in MutVals :
             /\ held' = Dict([held.d EXCEPT ![k] = v])
             /\ last' = Call("mutate", None, [field |-> k], NoneValue, "none")
             /\ UNCHANGED heap
       \/ \E c \in Channels : \E v \in MutVals :
             /\ heap' = [heap EXCEPT ![held.d.rgb][c] = v]
             /\ last' = Call("mutate", None, [field |-> c], NoneValue, "none")
             /\ UNCHANGED held
    /\ UNCHANGED <<presets, current_preset, file, failures, streak, saved>>

\* The process ends and a new PresetManager is constructed on the same file.
Restart ==
    \E outcome \in OutcomesOf(file.state = "absent") :
        LET s == load_presets(file, outcome)
        IN  /\ presets' = s.presets
            /\ heap' = s.heap
            /\ current_preset' = s.current_preset
            /\ file' = s.file
            /\ held' = NoneValue
            /\ last' = Call("init", None, << >>, NoneValue, s.write)
            /\ failures' = failures + Failed(outcome)
            /\ streak' = 0
            /\ saved' = NoSaved

\* The store as constructed when there is no presets file and the write succeeds.
PresetIdle ==
    LET s == load_presets(NoFile, "ok")
    IN  /\ presets = s.presets
        /\ heap = s.heap
        /\ current_preset = s.current_preset
        /\ file = s.file
        /\ held = NoneValue
        /\ last = Call("init", None, << >>, NoneValue, s.write)
        /\ failures = 0
        /\ streak = 0
        /\ saved = NoSaved

TypeOK ==
    /\ Keys(presets) \subseteq Names
    /\ Len(presets) = Cardinality(Keys(presets))
    /\ \A i \in DOMAIN presets : presets[i].val.rgb = i
    /\ DOMAIN heap = DOMAIN presets
    /\ held.type = "dict" => held.d.rgb \in DOMAIN heap
    /\ failures \in 0 .. MaxWriteFailures
    /\ streak \in 0 .. MaxStreak

----------------------------------------------------------------------------
(* Hotkey strings *)

Integer(n) == [type |-> "int", n |-> n]

\* A hotkey string is kept as hotkey.split('+'), the sequence of its parts:
\* "ctrl+alt+n" is <<"ctrl", "alt", "n">>, "ctrl+" is <<"ctrl", "">>, "n" is
\* <<"n">> and "" is <<"">>.

\* part.strip(), on the parts used here
strip(part) == CASE part = " ctrl" -> "ctrl" [] OTHER -> part

\* part.lower(), on the parts used here
lower(part) ==
    CASE part = "Ctrl" -> "ctrl"
      [] part = "Alt" -> "alt"
      [] part = "N" -> "n"
      [] OTHER -> part

valid_modifiers == {"ctrl", "alt", "shift", "win", "meta"}

\* validate_hotkey(hotkey), parts = hotkey.split('+')
validate_hotkey(parts) ==
    LET before == 1 .. (Len(parts) - 1)
        has_modifier == \E i \in before : lower(strip(parts[i])) \in valid_modifiers
    IN  IF parts = <<"">>
        THEN FALSE
        ELSE IF Len(parts) < 2
        THEN FALSE
        ELSE IF \E i \in before : lower(strip(parts[i])) \notin valid_modifiers
        THEN FALSE
        ELSE has_modifier /\ strip(parts[Len(parts)]) # ""

----------------------------------------------------------------------------
(* The keyboard library, as HotkeyManager uses it *)

\* The key names the library knows, among the parts used here.
KeyNames == valid_modifiers \cup {"n", "up", "down", "left", "right"}

\* The library parses a hotkey by splitting it at '+', trimming and
\* lower-casing each key name and looking the name up; an unknown or empty
\* name raises ValueError.
Parses(combo) == \A i \in DOMAIN combo : lower(strip(combo[i])) \in KeyNames

\* keyboard.add_hotkey(key_combo, callback): hooks callback under the very
\* string key_combo; raises when the string does not parse or when the OS
\* refuses the hook (os_ok = FALSE)
add_hotkey(ls, combo, callback, os_ok) ==
    IF Parses(combo) /\ os_ok
    THEN [raised |-> FALSE, listeners |-> [ls EXCEPT ![combo] = Append(@, callback)]]
    ELSE [raised |-> TRUE, listeners |-> ls]

\* keyboard.remove_hotkey(key_combo): unhooks what was last hooked under the
\* very string key_combo; raises KeyError when nothing is
remove_hotkey(ls, combo) ==
    IF ls[combo] = << >>
    THEN [raised |-> TRUE, listeners |-> ls]
    ELSE [raised |-> FALSE,
          listeners |-> [ls EXCEPT ![combo] = SubSeq(@, 1, Len(@) - 1)]]

----------------------------------------------------------------------------
(* The hotkey manager *)

CtrlAltN == <<"ctrl", "alt", "n">>          \* "ctrl+alt+n"
CtrlAltNUpper == <<"Ctrl", "Alt", "N">>     \* "Ctrl+Alt+N"
JustN == <<"n">>                            \* "n"
CtrlPlus == <<"ctrl", "">>                  \* "ctrl+"

\* The strings callers register and unregister.
Combos == {CtrlAltN, CtrlAltNUpper, JustN, CtrlPlus}

\* The callbacks callers bind.
Callbacks == {"f", "g"}

Outcome(hk, ls, ret) == [hotkeys |-> hk, listeners |-> ls, ret |-> ret]

\* unregister_hotkey, but reporting True whatever the library did
unregister_hotkey_reports_true(hk, ls, key_combo) ==
    LET r == remove_hotkey(ls, key_combo)
    IN  IF r.raised
        THEN Outcome(hk, ls, TRUE)
        ELSE Outcome(IF Has(hk, key_combo) THEN Del(hk, key_combo) ELSE hk,
                     r.listeners, TRUE)

\* unregister_hotkey(key_combo)
unregister_hotkey(hk, ls, key_combo) ==
    LET r == remove_hotkey(ls, key_combo)
    IN  IF r.raised
        THEN Outcome(hk, ls, FALSE)
        ELSE Outcome(IF Has(hk, key_combo) THEN Del(hk, key_combo) ELSE hk,
                     r.listeners, TRUE)

\* register_hotkey, but without unregistering a combo that is already bound
register_hotkey_keeps_listener(hk, ls, key_combo, callback, os_ok) ==
    LET a == add_hotkey(ls, key_combo, callback, os_ok)
    IN  IF a.raised
        THEN Outcome(hk, ls, FALSE)
        ELSE Outcome(Put(hk, key_combo, callback), a.listeners, TRUE)

\* register_hotkey(key_combo, callback)
register_hotkey(hk, ls, key_combo, callback, os_ok) ==
    LET u == IF Has(hk, key_combo)
             THEN unregister_hotkey(hk, ls, key_combo)
             ELSE Outcome(hk, ls, TRUE)
        a == add_hotkey(u.listeners, key_combo, callback, os_ok)
    IN  IF a.raised
        THEN Outcome(u.hotkeys, u.listeners, FALSE)
        ELSE Outcome(Put(u.hotkeys, key_combo, callback), a.listeners, TRUE)

\* the loop of unregister_all over the keys it listed, count so far
RECURSIVE unregister_each(_, _, _, _)
unregister_each(keys, hk, ls, count) ==
    IF keys = << >>
    THEN Outcome(hk, ls, count)
    ELSE LET u == unregister_hotkey(hk, ls, Head(keys))
         IN  unregister_each(Tail(keys), u.hotkeys, u.listeners,
                             IF u.ret THEN count + 1 ELSE count)

\* unregister_all()
unregister_all(hk, ls) == unregister_each(get_preset_names(hk), hk, ls, 0)

\* stop_listening, but only clearing the flag
stop_listening_flag_only(hk, ls) ==
    [hotkeys |-> hk, listeners |-> ls, is_listening |-> FALSE]

\* stop_listening()
stop_listening(hk, ls) ==
    LET u == unregister_all(hk, ls)
    IN  [hotkeys |-> u.hotkeys, listeners |-> u.listeners, is_listening |-> FALSE]

\* is_hotkey_registered(key_combo)
is_hotkey_registered(hk, key_combo) == Has(hk, key_combo)

\* HotkeyManager()
HotkeyInit ==
    /\ hotkeys = << >>
    /\ is_listening = FALSE
    /\ listeners = [c \in Combos |-> << >>]
    /\ hk_last = [op |-> "init", combo |-> << >>, callback |-> None, ret |-> NoneValue,
                  attempted |-> FALSE, os_ok |-> TRUE, bound |-> None, prev |-> None]

\* The record of a call: attempted says whether keyboard.add_hotkey was
\* called, os_ok what the OS answered, bound the callback key_combo was bound
\* to before the call, prev the operation called before this one.
HkCall(op, combo, callback, ret, attempted, os_ok) ==
    [op |-> op, combo |-> combo, callback |-> callback, ret |-> ret,
     attempted |-> attempted, os_ok |-> os_ok,
     bound |-> IF Has(hotkeys, combo) THEN Lookup(hotkeys, combo) ELSE None,
     prev |-> hk_last.op]

RegisterHotkey ==
    \E key_combo \in Combos : \E callback \in Callbacks : \E os_ok \in BOOLEAN :
        LET r == register_hotkey(hotkeys, listeners, key_combo, callback, os_ok)
        IN  /\ hotkeys' = r.hotkeys
            /\ listeners' = r.listeners
            /\ hk_last' = HkCall("register", key_combo, callback, Bool(r.ret), TRUE, os_ok)
            /\ UNCHANGED is_listening

UnregisterHotkey ==
    \E key_combo \in Combos :
        LET r == unregister_hotkey(hotkeys, listeners, key_combo)
        IN  /\ hotkeys' = r.hotkeys
            /\ listeners' = r.listeners
            /\ hk_last' = HkCall("unregister", key_combo, None, Bool(r.ret), FALSE, TRUE)
            /\ UNCHANGED is_listening

UnregisterAll ==
    LET r == unregister_all(hotkeys, listeners)
    IN  /\ hotkeys' = r.hotkeys
        /\ listeners' = r.listeners
        /\ hk_last' = HkCall("unregister_all", << >>, None, Integer(r.ret), FALSE, TRUE)
        /\ UNCHANGED is_listening

StartListening ==
    /\ is_listening' = TRUE
    /\ hk_last' = HkCall("start", << >>, None, NoneValue, FALSE, TRUE)
    /\ UNCHANGED <<hotkeys, listeners>>

StopListening ==
    LET r == stop_listening(hotkeys, listeners)
    IN  /\ hotkeys' = r.hotkeys
        /\ listeners' = r.listeners
        /\ is_listening' = r.is_listening
        /\ hk_last' = HkCall("stop", << >>, None, NoneValue, FALSE, TRUE)

HotkeyTypeOK ==
    /\ Keys(hotkeys) \subseteq Combos
    /\ Len(hotkeys) = Cardinality(Keys(hotkeys))
    /\ \A i \in DOMAIN hotkeys : hotkeys[i].val \in Callbacks
    /\ is_listening \in BOOLEAN
    /\ DOMAIN listeners = Combos

----------------------------------------------------------------------------
(* validate_hotkey, applied to a string *)

MaxParts == 3     \* most parts of a string given to validate_hotkey

\* The parts the strings are made of.
Parts == valid_modifiers \cup {"n", "up", "", "foo", "Ctrl", " ctrl"}

HotkeyStrings == UNION {[1 .. n -> Parts] : n \in 1 .. MaxParts}

ValidateInit ==
    /\ v_hotkey \in HotkeyStrings
    /\ v_result = NoneValue

\* no string has been given to validate_hotkey
ValidateIdle ==
    /\ v_hotkey = <<"">>
    /\ v_result = NoneValue

ValidateHotkey ==
    /\ v_result = NoneValue
    /\ v_result' = Bool(validate_hotkey(v_hotkey))
    /\ UNCHANGED v_hotkey

----------------------------------------------------------------------------
(* The settings of the gamma engine (src/src/gamma_engine.py) *)

\* max(a, b) and min(a, b)
max(a, b) == IF a >= b THEN a ELSE b
min(a, b) == IF a <= b THEN a ELSE b

\* The integers callers pass to the setters.
ArgValues == {-10, 150, 201, 999}

\* The (r, g, b) triples callers pass to set_rgb.
RgbArgs == {<<-10, 150, 999>>, <<999, -10, 150>>, <<256, 255, 0>>}

\* set_brightness, but storing the value as given
set_brightness_unclamped(value) == value

\* set_brightness(value): the value stored in current_brightness
set_brightness(value) == max(0, min(200, value))

\* set_contrast(value): the value stored in current_contrast
set_contrast(value) == max(0, min(200, value))

\* set_grayscale(value): the value stored in current_grayscale
set_grayscale(value) == max(0, min(100, value))

\* set_rgb(r, g, b): the dict stored in current_rgb
set_rgb(r, g, b) ==
    [red |-> max(0, min(255, r)),
     green |-> max(0, min(255, g)),
     blue |-> max(0, min(255, b))]

\* The answers of the OS to one _apply_gamma_ramp: no device context, the
\* ramp refused, the ramp set.
OsOutcomes == {"no_dc", "refused", "done"}

\* _apply_gamma_ramp, but setting the ramp again when it was refused
apply_gamma_ramp_retry(device, os) ==
    LET acquire == IF device # None THEN "CreateDCW" ELSE "GetDC"
        release == IF device # None THEN "DeleteDC" ELSE "ReleaseDC"
    IN  IF os = "no_dc"
        THEN [ret |-> FALSE, calls |-> <<acquire>>]
        ELSE IF os = "refused"
        THEN [ret |-> FALSE,
              calls |-> <<acquire, "SetDeviceGammaRamp", "SetDeviceGammaRamp", release>>]
        ELSE [ret |-> TRUE, calls |-> <<acquire, "SetDeviceGammaRamp", release>>]

\* _apply_gamma_ramp(ramp): its return value and the OS calls it makes, on
\* the device the probe chose
apply_gamma_ramp(device, os) ==
    LET acquire == IF device # None THEN "CreateDCW" ELSE "GetDC"
        release == IF device # None THEN "DeleteDC" ELSE "ReleaseDC"
    IN  IF os = "no_dc"
        THEN [ret |-> FALSE, calls |-> <<acquire>>]
        ELSE [ret |-> (os = "done"),
              calls |-> <<acquire, "SetDeviceGammaRamp", release>>]

\* apply_settings, but without the test of _gamma_ramp_supported
apply_settings_unchecked(supported, device, os) == apply_gamma_ramp(device, os)

\* apply_settings(): its return value and the OS calls it makes
apply_settings(supported, device, os) ==
    IF ~supported
    THEN [ret |-> FALSE, calls |-> << >>]
    ELSE apply_gamma_ramp(device, os)

\* reset_to_default, but resetting the settings whatever the OS answered
reset_to_default_always_resets(supported, ramp, device, os) ==
    IF ~supported
    THEN [ret |-> FALSE, reset |-> TRUE, calls |-> << >>]
    ELSE IF ramp # None
    THEN LET a == apply_gamma_ramp(device, os)
         IN  [ret |-> a.ret, reset |-> TRUE, calls |-> a.calls]
    ELSE [ret |-> FALSE, reset |-> FALSE, calls |-> << >>]

\* reset_to_default, but leaving the settings alone when unsupported
reset_to_default_keeps_unsupported(supported, ramp, device, os) ==
    IF ~supported
    THEN [ret |-> FALSE, reset |-> FALSE, calls |-> << >>]
    ELSE IF ramp # None
    THEN LET a == apply_gamma_ramp(device, os)
         IN  [ret |-> a.ret, reset |-> a.ret, calls |-> a.calls]
    ELSE [ret |-> FALSE, reset |-> FALSE, calls |-> << >>]

\* reset_to_default(): its return value, whether it resets the settings and
\* the OS calls it makes
reset_to_default(supported, ramp, device, os) ==
    IF ~supported
    THEN [ret |-> FALSE, reset |-> TRUE, calls |-> << >>]
    ELSE IF ramp # None
    THEN LET a == apply_gamma_ramp(device, os)
         IN  [ret |-> a.ret, reset |-> a.ret, calls |-> a.calls]
    ELSE [ret |-> FALSE, reset |-> FALSE, calls |-> << >>]

\* The record of a call: calls are the OS calls made during it, os what the
\* OS answered (None when it was not asked), prev the operation called
\* before this one.
GCall(op, arg, ret, calls, os) ==
    [op |-> op, arg |-> arg, ret |-> ret, calls |-> calls, os |-> os,
     prev |-> g_last.op]

\* the settings GammaEngine() starts with and reset_to_default restores
DefaultSettings(b, c, g, rgb) ==
    /\ b = 100
    /\ c = 100
    /\ g = 0
    /\ rgb = DefaultRGB

\* The name of a display other than the default one.
Display2 == "DISPLAY2"

\* GammaEngine(): the probe finds that the default display takes a gamma
\* ramp, or that another display does, or none; _save_default_ramp reads
\* the ramp of the display found or fails to
GammaInit ==
    /\ DefaultSettings(current_brightness, current_contrast, current_grayscale, current_rgb)
    /\ gamma_ramp_supported \in BOOLEAN
    /\ primary_device_name \in (IF gamma_ramp_supported THEN {None, Display2} ELSE {None})
    /\ default_ramp \in (IF gamma_ramp_supported THEN {"saved", None} ELSE {None})
    /\ g_last = [op |-> "init", arg |-> << >>, ret |-> NoneValue, calls |-> << >>,
                 os |-> None, prev |-> None]

\* GammaEngine() where no device takes a gamma ramp
GammaIdle ==
    /\ DefaultSettings(current_brightness, current_contrast, current_grayscale, current_rgb)
    /\ gamma_ramp_supported = FALSE
    /\ primary_device_name = None
    /\ default_ramp = None
    /\ g_last = [op |-> "init", arg |-> << >>, ret |-> NoneValue, calls |-> << >>,
                 os |-> None, prev |-> None]

\* the attributes of the engine
Self ==
    [current_brightness |-> current_brightness,
     current_contrast |-> current_contrast,
     current_grayscale |-> current_grayscale,
     current_rgb |-> current_rgb,
     gamma_ramp_supported |-> gamma_ramp_supported,
     primary_device_name |-> primary_device_name,
     default_ramp |-> default_ramp]

\* self.attr = value, but with every other setting back at its default
assign_resetting(self, attr, value) ==
    [[self EXCEPT !.current_brightness = 100, !.current_contrast = 100,
                  !.current_grayscale = 0, !.current_rgb = DefaultRGB]
         EXCEPT ![attr] = value]

\* self.attr = value
assign(self, attr, value) == [self EXCEPT ![attr] = value]

\* the engine has the attributes self
Becomes(self) ==
    /\ current_brightness' = self.current_brightness
    /\ current_contrast' = self.current_contrast
    /\ current_grayscale' = self.current_grayscale
    /\ current_rgb' = self.current_rgb
    /\ gamma_ramp_supported' = self.gamma_ramp_supported
    /\ primary_device_name' = self.primary_device_name
    /\ default_ramp' = self.default_ramp

SetBrightness ==
    \E value \in ArgValues :
        /\ Becomes(assign(Self, "current_brightness", set_brightness(value)))
        /\ g_last' = GCall("set_brightness", <<value>>, NoneValue, << >>, None)

SetContrast ==
    \E value \in ArgValues :
        /\ Becomes(assign(Self, "current_contrast", set_contrast(value)))
        /\ g_last' = GCall("set_contrast", <<value>>, NoneValue, << >>, None)

SetGrayscale ==
    \E value \in ArgValues :
        /\ Becomes(assign(Self, "current_grayscale", set_grayscale(value)))
        /\ g_last' = GCall("set_grayscale", <<value>>, NoneValue, << >>, None)

SetRgb ==
    \E arg \in RgbArgs :
        /\ Becomes(assign(Self, "current_rgb", set_rgb(arg[1], arg[2], arg[3])))
        /\ g_last' = GCall("set_rgb", arg, NoneValue, << >>, None)

ApplySettings ==
    \E os \in OsOutcomes :
        LET r == apply_settings(gamma_ramp_supported, primary_device_name, os)
        IN  /\ g_last' = GCall("apply_settings", << >>, Bool(r.ret), r.calls,
                               IF r.calls = << >> THEN None ELSE os)
            /\ UNCHANGED <<current_brightness, current_contrast, current_grayscale,
                           current_rgb, gamma_ramp_supported, primary_device_name,
                           default_ramp>>

ResetToDefault ==
    \E os \in OsOutcomes :
        LET r == reset_to_default(gamma_ramp_supported, default_ramp,
                                  primary_device_name, os)
        IN  /\ IF r.reset
               THEN DefaultSettings(current_brightness', current_contrast',
                                    current_grayscale', current_rgb')
               ELSE UNCHANGED <<current_brightness, current_contrast,
                                current_grayscale, current_rgb>>
            /\ g_last' = GCall("reset_to_default", << >>, Bool(r.ret), r.calls,
                               IF r.calls = << >> THEN None ELSE os)
            /\ UNCHANGED <<gamma_ramp_supported, primary_device_name, default_ramp>>

GammaTypeOK ==
    /\ current_brightness \in Int
    /\ current_contrast \in Int
    /\ current_grayscale \in Int
    /\ DOMAIN current_rgb = {"red", "green", "blue"}
    /\ gamma_ramp_supported \in BOOLEAN
    /\ primary_device_name \in {None, Display2}
    /\ default_ramp \in {"saved", None}

----------------------------------------------------------------------------
(* GammaEngine(): the probe and the saving of the default ramp *)

MaxDisplays == 2

\* What the OS answers for one display: it is not attached to the desktop,
\* or one of OsOutcomes for the device context and the trial read on it.
DisplayKinds == {"detached"} \cup OsOutcomes

RECURSIVE SeqsUpTo(_, _)
SeqsUpTo(S, n) ==
    IF n = 0 THEN {<< >>}
    ELSE SeqsUpTo(S, n - 1) \cup
         {Append(q, x) : q \in {r \in SeqsUpTo(S, n - 1) : Len(r) = n - 1}, x \in S}

\* The displays EnumDisplayDevicesW lists, in its order.
Displays == SeqsUpTo(DisplayKinds, MaxDisplays)

\* DeviceName of the display listed at index i - 1
DeviceNames == <<"DISPLAY1", Display2, "DISPLAY3", "DISPLAY4">>

\* One call on a device context: the function, the display and whether the
\* OS answered with a handle or with success.
Ev(call, device, ret) == [call |-> call, device |-> device, ret |-> ret]

\* _test_device_gamma_support, but taking every capable device
test_device_gamma_support_last_wins(self, device_name, kind) ==
    IF kind = "no_dc"
    THEN [self EXCEPT !.calls = @ \o <<Ev("CreateDCW", device_name, FALSE)>>]
    ELSE [self EXCEPT
            !.supported = @ \/ kind = "done",
            !.device = IF kind = "done" THEN device_name ELSE @,
            !.calls = @ \o <<Ev("CreateDCW", device_name, TRUE),
                             Ev("GetDeviceGammaRamp", device_name, kind = "done"),
                             Ev("DeleteDC", device_name, TRUE)>>]

\* _test_device_gamma_support, but returning at once when the read fails
test_device_gamma_support_leaky(self, device_name, kind) ==
    IF kind = "no_dc"
    THEN [self EXCEPT !.calls = @ \o <<Ev("CreateDCW", device_name, FALSE)>>]
    ELSE IF kind = "refused"
    THEN [self EXCEPT
            !.calls = @ \o <<Ev("CreateDCW", device_name, TRUE),
                             Ev("GetDeviceGammaRamp", device_name, FALSE)>>]
    ELSE [self EXCEPT
            !.supported = TRUE,
            !.device = IF ~self.supported THEN device_name ELSE @,
            !.calls = @ \o <<Ev("CreateDCW", device_name, TRUE),
                             Ev("GetDeviceGammaRamp", device_name, TRUE),
                             Ev("DeleteDC", device_name, TRUE)>>]

\* _test_device_gamma_support(device_name, device_desc) on an engine self =
\* [supported, device, calls], where the OS answers kind for the display
test_device_gamma_support(self, device_name, kind) ==
    IF kind = "no_dc"
    THEN [self EXCEPT !.calls = @ \o <<Ev("CreateDCW", device_name, FALSE)>>]
    ELSE [self EXCEPT
            !.supported = @ \/ kind = "done",
            !.device = IF kind = "done" /\ ~self.supported THEN device_name ELSE @,
            !.calls = @ \o <<Ev("CreateDCW", device_name, TRUE),
                             Ev("GetDeviceGammaRamp", device_name, kind = "done"),
                             Ev("DeleteDC", device_name, TRUE)>>]

\* _enumerate_display_devices(), from the display at index i - 1 on
RECURSIVE enumerate_display_devices(_, _, _)
enumerate_display_devices(self, ds, i) ==
    IF i > Len(ds)
    THEN self
    ELSE enumerate_display_devices(
             IF ds[i] # "detached"
             THEN test_device_gamma_support(self, DeviceNames[i], ds[i])
             ELSE self,
             ds, i + 1)

\* _check_gamma_ramp_support(), where the OS answers os for the default
\* display and lists the displays ds
check_gamma_ramp_support(os, ds) ==
    IF os = "no_dc"
    THEN [supported |-> FALSE, device |-> None, calls |-> <<Ev("GetDC", None, FALSE)>>]
    ELSE IF os = "refused"
    THEN enumerate_display_devices(
             [supported |-> FALSE, device |-> None,
              calls |-> <<Ev("GetDC", None, TRUE),
                          Ev("GetDeviceGammaRamp", None, FALSE),
                          Ev("ReleaseDC", None, TRUE)>>],
             ds, 1)
    ELSE [supported |-> TRUE, device |-> None,
          calls |-> <<Ev("GetDC", None, TRUE),
                      Ev("GetDeviceGammaRamp", None, TRUE),
                      Ev("ReleaseDC", None, TRUE)>>]

\* _save_default_ramp, but keeping the ramp whatever the read answered
save_default_ramp_unchecked(device, os) ==
    LET acquire == IF device # None THEN "CreateDCW" ELSE "GetDC"
        release == IF device # None THEN "DeleteDC" ELSE "ReleaseDC"
    IN  IF os = "no_dc"
        THEN [ramp |-> None, calls |-> <<Ev(acquire, device, FALSE)>>]
        ELSE [ramp |-> "saved",
              calls |-> <<Ev(acquire, device, TRUE),
                          Ev("GetDeviceGammaRamp", device, os = "done"),
                          Ev(release, device, TRUE)>>]

\* _save_default_ramp(): the value of _default_ramp after it and the calls
\* it makes, where the OS answers os
save_default_ramp(device, os) ==
    LET acquire == IF device # None THEN "CreateDCW" ELSE "GetDC"
        release == IF device # None THEN "DeleteDC" ELSE "ReleaseDC"
    IN  IF os = "no_dc"
        THEN [ramp |-> None, calls |-> <<Ev(acquire, device, FALSE)>>]
        ELSE [ramp |-> IF os = "done" THEN "saved" ELSE None,
              calls |-> <<Ev(acquire, device, TRUE),
                          Ev("GetDeviceGammaRamp", device, os = "done"),
                          Ev(release, device, TRUE)>>]

\* the engine after the probe p and, if it found support, the saving s
Constructed(p, s) ==
    [supported |-> p.supported, device |-> p.device,
     ramp |-> IF p.supported THEN s.ramp ELSE None,
     calls |-> IF p.supported THEN p.calls \o s.calls ELSE p.calls]

\* GammaEngine.__init__
init(os, ds, os2) ==
    Constructed(check_gamma_ramp_support(os, ds),
                save_default_ramp(check_gamma_ramp_support(os, ds).device, os2))

\* Before GammaEngine(): what the OS will answer.
ProbeInit ==
    /\ os_default \in OsOutcomes
    /\ displays \in Displays
    /\ os_save \in OsOutcomes
    /\ probe_calls = << >>
    /\ constructed = FALSE

\* the engine is constructed
ProbeIdle ==
    /\ os_default = "no_dc"
    /\ displays = << >>
    /\ os_save = "no_dc"
    /\ probe_calls = << >>
    /\ constructed = TRUE

Construct ==
    /\ ~constructed
    /\ constructed' = TRUE
    /\ gamma_ramp_supported' = init(os_default, displays, os_save).supported
    /\ primary_device_name' = init(os_default, displays, os_save).device
    /\ default_ramp' = init(os_default, displays, os_save).ramp
    /\ probe_calls' = init(os_default, displays, os_save).calls
    /\ g_last' = GCall("__init__", << >>, NoneValue, << >>, None)
    /\ UNCHANGED <<current_brightness, current_contrast, current_grayscale,
                   current_rgb, os_default, displays, os_save>>

----------------------------------------------------------------------------
(* The settings the gamma engine hands out *)

\* get_current_settings, but handing out current_rgb itself
get_current_settings_live(self) ==
    [d |-> [brightness |-> self.current_brightness,
            contrast |-> self.current_contrast,
            grayscale |-> self.current_grayscale,
            rgb |-> self.current_rgb],
     rgb_is_live |-> TRUE]

\* get_current_settings(): a new dict d whose rgb is self.current_rgb.copy(),
\* a new dict as well; rgb_is_live says whether d's rgb is the object that
\* self.current_rgb is
get_current_settings(self) ==
    [d |-> [brightness |-> self.current_brightness,
            contrast |-> self.current_contrast,
            grayscale |-> self.current_grayscale,
            rgb |-> self.current_rgb],
     rgb_is_live |-> FALSE]

\* no settings have been handed out
SnapshotIdle == g_held = NoneValue

GetCurrentSettings ==
    /\ g_held' = [type |-> "dict"] @@ get_current_settings(Self)
    /\ g_last' = GCall("get_current_settings", << >>, NoneValue, << >>, None)
    /\ UNCHANGED <<current_brightness, current_contrast, current_grayscale,
                   current_rgb, gamma_ramp_supported, primary_device_name,
                   default_ramp>>

\* set_rgb binds current_rgb to a new dict: what was handed out before is
\* no longer the engine's object
SetRgbHeld ==
    /\ SetRgb
    /\ g_held' = IF g_held = NoneValue THEN g_held
                 ELSE [g_held EXCEPT !.rgb_is_live = FALSE]

\* the caller writes v into a field of the dict it was handed: into
\* brightness, or into a channel of its rgb, which is a write into the
\* engine's current_rgb when the two are one object
MutateSettings ==
    /\ g_held # NoneValue
    /\ \E v \in MutVals :
        \/ /\ \E f \in TopFields : g_held' = [g_held EXCEPT !.d[f] = v]
           /\ g_last' = GCall("mutate", <<v>>, NoneValue, << >>, None)
           /\ UNCHANGED current_rgb
        \/ \E c \in Channels :
              /\ g_held' = [g_held EXCEPT !.d.rgb[c] = v]
              /\ g_last' = GCall("mutate", <<c, v>>, NoneValue, << >>, None)
              /\ current_rgb' = IF g_held.rgb_is_live
                                THEN [current_rgb EXCEPT ![c] = v]
                                ELSE current_rgb
    /\ UNCHANGED <<current_brightness, current_contrast, current_grayscale,
                   gamma_ramp_supported, primary_device_name, default_ramp>>

----------------------------------------------------------------------------
(* Natural numbers of any size, as sequences of 15-bit limbs, low limb first *)

Limb == 32768     \* 2^15: the product of two limbs fits a 32-bit integer

\* N without its high zero limbs
RECURSIVE Norm(_)
Norm(N) ==
    IF N = << >> THEN << >>
    ELSE IF N[Len(N)] = 0 THEN Norm(SubSeq(N, 1, Len(N) - 1))
    ELSE N

\* the limbs of an integer 0 <= n < 2^31
FromNat(n) == Norm(<<n % Limb, (n \div Limb) % Limb, n \div (Limb * Limb)>>)

\* the integer that N is, for N < 2^30
ToNat(N) ==
    IF N = << >> THEN 0
    ELSE IF Len(N) = 1 THEN N[1]
    ELSE N[1] + Limb * N[2]

LimbAt(N, i) == IF i <= Len(N) THEN N[i] ELSE 0

RECURSIVE AddFrom(_, _, _, _)
AddFrom(N, M, i, carry) ==
    IF i > Len(N) /\ i > Len(M)
    THEN IF carry = 0 THEN << >> ELSE <<carry>>
    ELSE LET t == LimbAt(N, i) + LimbAt(M, i) + carry
         IN  <<t % Limb>> \o AddFrom(N, M, i + 1, t \div Limb)

\* N + M
AddN(N, M) == AddFrom(N, M, 1, 0)

RECURSIVE SubFrom(_, _, _, _)
SubFrom(N, M, i, borrow) ==
    IF i > Len(N)
    THEN << >>
    ELSE LET t == LimbAt(N, i) - LimbAt(M, i) - borrow
         IN  IF t < 0
             THEN <<t + Limb>> \o SubFrom(N, M, i + 1, 1)
             ELSE <<t>> \o SubFrom(N, M, i + 1, 0)

\* N - M, for N >= M
SubN(N, M) == Norm(SubFrom(N, M, 1, 0))

RECURSIVE CmpFrom(_, _, _)
CmpFrom(N, M, i) ==
    IF i = 0 THEN 0
    ELSE IF N[i] < M[i] THEN -1
    ELSE IF N[i] > M[i] THEN 1
    ELSE CmpFrom(N, M, i - 1)

\* -1, 0 or 1 as N < M, N = M or N > M
CmpN(N, M) ==
    IF Len(N) < Len(M) THEN -1
    ELSE IF Len(N) > Len(M) THEN 1
    ELSE CmpFrom(N, M, Len(N))

RECURSIVE MulSmallFrom(_, _, _, _)
MulSmallFrom(N, s, i, carry) ==
    IF i > Len(N)
    THEN IF carry = 0 THEN << >> ELSE <<carry>>
    ELSE LET t == N[i] * s + carry
         IN  <<t % Limb>> \o MulSmallFrom(N, s, i + 1, t \div Limb)

\* N * s, for 0 <= s < Limb
MulSmall(N, s) == IF s = 0 THEN << >> ELSE MulSmallFrom(N, s, 1, 0)

\* N * Limb
ShiftLimb(N) == IF N = << >> THEN << >> ELSE <<0>> \o N

\* N * M
RECURSIVE MulN(_, _)
MulN(N, M) ==
    IF M = << >> \/ N = << >> THEN << >>
    ELSE AddN(MulSmall(N, M[1]), ShiftLimb(MulN(N, Tail(M))))

\* the division x of the limbs below, with one more quotient limb on top
DivStep(x, limb) == [q |-> Append(x.q, limb), r |-> x.r]

\* N divided by d, for 0 < d <= Limb, from limb i down with remainder rem:
\* the quotient limbs, low first, and the last remainder
RECURSIVE DivSmallFrom(_, _, _, _)
DivSmallFrom(N, d, i, rem) ==
    IF i = 0
    THEN [q |-> << >>, r |-> rem]
    ELSE DivStep(DivSmallFrom(N, d, i - 1, (rem * Limb + N[i]) % d),
                 (rem * Limb + N[i]) \div d)

\* the division x with its quotient normalised
DivNorm(x) == [q |-> Norm(x.q), r |-> x.r]

\* the quotient q and the remainder r of N by d, for 0 < d <= Limb
DivSmall(N, d) == DivNorm(DivSmallFrom(N, d, Len(N), 0))

\* N * 2^k
Shl(N, k) ==
    IF N = << >> THEN << >>
    ELSE [i \in 1 .. (k \div 15) |-> 0] \o MulSmall(N, 2 ^ (k % 15))

\* N \div 2^k
Shr(N, k) ==
    IF Len(N) <= k \div 15 THEN << >>
    ELSE DivSmall(SubSeq(N, (k \div 15) + 1, Len(N)), 2 ^ (k % 15)).q

\* the number of bits of N
BitLen(N) ==
    IF N = << >> THEN 0
    ELSE 15 * (Len(N) - 1) + (CHOOSE b \in 1 .. 15 : 2 ^ (b - 1) <= N[Len(N)] /\ N[Len(N)] < 2 ^ b)

----------------------------------------------------------------------------
(* Python floats: IEEE 754 binary64, round to nearest, ties to even *)

\* A float is [neg, m, e] with value (-1)^neg * m * 2^e, where m has
\* exactly 53 bits, or m = << >> and e = 0 for zero.

Zero == [neg |-> FALSE, m |-> << >>, e |-> 0]

\* the float (-1)^neg * q * 2^e, for q of 53 bits or q = 2^53
Renorm(neg, q, e) ==
    IF BitLen(q) = 54
    THEN [neg |-> neg, m |-> Shr(q, 1), e |-> e + 1]
    ELSE [neg |-> neg, m |-> q, e |-> e]

\* q, or the next integer: up when what was cut off compares as c to half
\* a unit (c > 0), and to the even one on a tie (c = 0)
RoundQuot(neg, q, e, c) ==
    Renorm(neg, IF c > 0 \/ (c = 0 /\ q[1] % 2 = 1) THEN AddN(q, <<1>>) ELSE q, e)

\* N of more than 53 bits, cut by sh bits to q
RoundCut(neg, N, e, sh, q) ==
    RoundQuot(neg, q, e + sh, CmpN(SubN(N, Shl(q, sh)), Shl(<<1>>, sh - 1)))

\* N of L bits
RoundBits(neg, N, e, L) ==
    IF L = 0 THEN [neg |-> neg, m |-> << >>, e |-> 0]
    ELSE IF L <= 53 THEN [neg |-> neg, m |-> Shl(N, 53 - L), e |-> e - (53 - L)]
    ELSE RoundCut(neg, N, e, L - 53, Shr(N, L - 53))

\* the float nearest to (-1)^neg * N * 2^e
Round(neg, N, e) == RoundBits(neg, N, e, BitLen(N))

\* float(n), for an integer n
float(n) == IF n < 0 THEN Round(TRUE, FromNat(-n), 0) ELSE Round(FALSE, FromNat(n), 0)

\* the division d to 64 binary places, as a float: a last bit is added that
\* says whether there is a remainder
Sticky(neg, d) ==
    Round(neg, AddN(MulSmall(d.q, 2), IF d.r = 0 THEN << >> ELSE <<1>>), -65)

\* a / b for an int a and a float b whose value is the integer b > 0:
\* the quotient to 64 binary places, with one more bit that says whether
\* anything is left, rounded
truediv(a, b) ==
    Sticky(a < 0, DivSmall(Shl(FromNat(IF a < 0 THEN -a ELSE a), 64), b))

\* x * y
fmul(x, y) == Round(x.neg # y.neg, MulN(x.m, y.m), x.e + y.e)

\* -x
fneg(x) == [x EXCEPT !.neg = ~x.neg]

\* (-1)^xneg * X * 2^e + (-1)^yneg * Y * 2^e, where X and Y compare as c
AddSigned(xneg, X, yneg, Y, e, c) ==
    IF xneg = yneg THEN Round(xneg, AddN(X, Y), e)
    ELSE IF c = 0 THEN Zero
    ELSE IF c > 0 THEN Round(xneg, SubN(X, Y), e)
    ELSE Round(yneg, SubN(Y, X), e)

AddAligned(xneg, X, yneg, Y, e) == AddSigned(xneg, X, yneg, Y, e, CmpN(X, Y))

\* x + y
fadd(x, y) ==
    IF x.m = << >> THEN (IF y.m = << >> THEN [y EXCEPT !.neg = x.neg /\ y.neg] ELSE y)
    ELSE IF y.m = << >> THEN x
    ELSE AddAligned(x.neg, Shl(x.m, x.e - min(x.e, y.e)),
                    y.neg, Shl(y.m, y.e - min(x.e, y.e)), min(x.e, y.e))

\* x - y
fsub(x, y) == fadd(x, fneg(y))

\* x < y
flt(x, y) ==
    IF x.m = << >> /\ y.m = << >> THEN FALSE
    ELSE IF x.m = << >> THEN ~y.neg
    ELSE IF y.m = << >> THEN x.neg
    ELSE IF x.neg # y.neg THEN x.neg
    ELSE LET c == IF x.e < y.e THEN -1 ELSE IF x.e > y.e THEN 1 ELSE CmpN(x.m, y.m)
         IN  IF x.neg THEN c > 0 ELSE c < 0

\* max(a, b) and min(a, b) of Python, on floats: a unless b is beyond it
fmax(a, b) == IF flt(a, b) THEN b ELSE a
fmin(a, b) == IF flt(b, a) THEN b ELSE a

\* int(x): x truncated towards zero, for |x| < 2^30
int(x) ==
    LET n == IF x.m = << >> THEN 0
             ELSE IF x.e >= 0 THEN ToNat(Shl(x.m, x.e))
             ELSE ToNat(Shr(x.m, -x.e))
    IN  IF x.neg THEN -n ELSE n

----------------------------------------------------------------------------
(* The gamma ramp *)

\* what a c_ushort field holds after n is stored in it
c_ushort(n) == n % 65536

\* the float 0.5
Half == truediv(1, 2)

\* base_value, but without the brightness
base_value_no_brightness(brightness, contrast, i) ==
    LET contrast_factor == truediv(contrast, 100)
        value1 == truediv(i, 255)
        value2 == fadd(fmul(fsub(value1, Half), contrast_factor), Half)
        value4 == fmax(float(0), fmin(float(1), value2))
    IN  int(fmul(value4, float(65535)))

\* base_value, but scaled to 65536
base_value_65536(brightness, contrast, i) ==
    LET brightness_factor == truediv(brightness, 100)
        contrast_factor == truediv(contrast, 100)
        value1 == truediv(i, 255)
        value2 == fadd(fmul(fsub(value1, Half), contrast_factor), Half)
        value3 == fmul(value2, brightness_factor)
        value4 == fmax(float(0), fmin(float(1), value3))
    IN  int(fmul(value4, float(65536)))

\* base_value, but without step 4, the limit to [0.0, 1.0]
base_value_unclamped(brightness, contrast, i) ==
    LET brightness_factor == truediv(brightness, 100)
        contrast_factor == truediv(contrast, 100)
        value1 == truediv(i, 255)
        value2 == fadd(fmul(fsub(value1, Half), contrast_factor), Half)
        value3 == fmul(value2, brightness_factor)
    IN  int(fmul(value3, float(65535)))

\* steps 1 to 5 of the loop of _calculate_gamma_ramp: base_value for index i
base_value(brightness, contrast, i) ==
    LET brightness_factor == truediv(brightness, 100)
        contrast_factor == truediv(contrast, 100)
        value1 == truediv(i, 255)
        value2 == fadd(fmul(fsub(value1, Half), contrast_factor), Half)
        value3 == fmul(value2, brightness_factor)
        value4 == fmax(float(0), fmin(float(1), value3))
    IN  int(fmul(value4, float(65535)))

\* channel_value, but without the grayscale
channel_value_no_grayscale(base, grayscale, c) ==
    c_ushort(int(fmul(float(base), truediv(c, 255))))

\* step 6 of the loop: the integer assigned to the entry of a channel of
\* value c
channel_int(base, grayscale, c) ==
    LET grayscale_factor == truediv(grayscale, 100)
        gray_value == fmul(float(base), fsub(float(1), grayscale_factor))
    IN  IF flt(float(0), grayscale_factor)
        THEN int(fmul(gray_value, truediv(c, 255)))
        ELSE int(fmul(float(base), truediv(c, 255)))

\* step 6 of the loop: what is stored in the entry of a channel of value c
channel_value(base, grayscale, c) == c_ushort(channel_int(base, grayscale, c))

\* the three assignments ramp.Red[i], ramp.Green[i], ramp.Blue[i]
channels(base, grayscale, r, g, b) ==
    [Red |-> channel_value(base, grayscale, r),
     Green |-> channel_value(base, grayscale, g),
     Blue |-> channel_value(base, grayscale, b)]

\* _calculate_gamma_ramp, but with the brightness of the engine
calculate_gamma_ramp_of_self(brightness, contrast, grayscale, r, g, b, i) ==
    channels(base_value(current_brightness, contrast, i), grayscale, r, g, b)

\* _calculate_gamma_ramp(brightness, contrast, grayscale, r, g, b): the
\* entries Red[i], Green[i], Blue[i] of the ramp it returns
calculate_gamma_ramp(brightness, contrast, grayscale, r, g, b, i) ==
    channels(base_value(brightness, contrast, i), grayscale, r, g, b)

\* The settings the ramp is calculated for: the defaults, brightness 0,
\* grayscale 100, the largest brightness and contrast, and settings in
\* between.
DefaultArgs == <<100, 100, 0, 255, 255, 255>>

RampChannels == {<<255, 255, 255>>, <<255, 128, 10>>}

RampArgs ==
    {DefaultArgs, <<150, 120, 30, 10, 20, 30>>, <<80, 90, 0, 255, 200, 150>>,
     <<200, 200, 0, 255, 128, 10>>}
    \cup {<<0, c, g, ch[1], ch[2], ch[3]>> :
              c \in {0, 100, 200}, g \in {0, 50, 100}, ch \in RampChannels}
    \cup {<<b, c, 100, ch[1], ch[2], ch[3]>> :
              b \in {50, 200}, c \in {100, 200}, ch \in RampChannels}

RampIndexes == 0 .. 255

\* The settings and indexes of the calls made between operations of the
\* engine.
PureArgs == {<<150, 120, 30, 10, 20, 30>>}
PureIndexes == {1, 128}

NeverSeen == [k \in PureArgs \X PureIndexes |-> NoneValue]

\* _calculate_gamma_ramp is about to be called
RampInit ==
    /\ ramp_args \in RampArgs
    /\ ramp_index \in RampIndexes
    /\ ramp_entry = NoneValue
    /\ ramp_seen = NeverSeen
    /\ ramp_repeat = FALSE

\* no ramp is being calculated
RampIdle ==
    /\ ramp_args = DefaultArgs
    /\ ramp_index = 0
    /\ ramp_entry = NoneValue
    /\ ramp_seen = NeverSeen
    /\ ramp_repeat = FALSE

\* the call returns: entry i of the ramp
CalculateGammaRamp ==
    /\ ramp_entry = NoneValue
    /\ ramp_entry' = [type |-> "RAMP"] @@
            calculate_gamma_ramp(ramp_args[1], ramp_args[2], ramp_args[3],
                                 ramp_args[4], ramp_args[5], ramp_args[6], ramp_index)
    /\ UNCHANGED <<ramp_args, ramp_index, ramp_seen, ramp_repeat>>

\* a call made in some state of the engine; ramp_seen keeps, for the
\* arguments of each call, what the first call returned and the brightness
\* the engine had then, ramp_repeat says whether this was not the first
Returns(args, i, entry) ==
    /\ ramp_args' = args
    /\ ramp_index' = i
    /\ ramp_entry' = entry
    /\ ramp_repeat' = (ramp_seen[<<args, i>>] # NoneValue)
    /\ ramp_seen' = IF ramp_seen[<<args, i>>] = NoneValue
                    THEN [ramp_seen EXCEPT ![<<args, i>>] =
                             [entry |-> entry, at |-> current_brightness]]
                    ELSE ramp_seen
    /\ g_last' = GCall("_calculate_gamma_ramp", <<i>>, NoneValue, << >>, None)
    /\ UNCHANGED <<current_brightness, current_contrast, current_grayscale,
                   current_rgb, gamma_ramp_supported, primary_device_name,
                   default_ramp>>

CalculateAgain ==
    \E args \in PureArgs : \E i \in PureIndexes :
        Returns(args, i, [type |-> "RAMP"] @@
                    calculate_gamma_ramp(args[1], args[2], args[3],
                                         args[4], args[5], args[6], i))

----------------------------------------------------------------------------
(* GammaTool: the hotkey handlers adjust_brightness and adjust_contrast,
   the display settings of the ConfigManager and the sliders and the
   debounce timer of the MainWindow *)

\* 'advanced.adjustment_step' as config.json holds it: a step that reaches
\* both ends of the range in a few nudges.
adjustment_step == 150

\* register_hotkeys binds the handlers to the step and to its negative.
Deltas == {adjustment_step, -adjustment_step}

\* The brightness and the contrast config.json holds when GammaTool starts.
StartValues == {50, 100}

\* ConfigManager._get_default_config()['display']
DefaultDisplay ==
    [brightness |-> 100, contrast |-> 100, grayscale |-> 0, rgb |-> DefaultRGB]

\* The values create_slider_row gives the sliders.
DefaultSliders ==
    [brightness |-> 100, contrast |-> 100, grayscale |-> 0,
     red |-> 255, green |-> 255, blue |-> 255]

\* What happens to one write of config.json.
ConfigWriteOutcomes == {"ok", "failed"}

\* save_config(): what config.json holds afterwards; a failed write is
\* logged and nothing else
save_config(f, cfg, outcome) == IF outcome = "ok" THEN cfg ELSE f

\* config_manager.set('display.' + key, value): the display settings and
\* config.json afterwards
config_set(cfg, f, key, value, outcome) ==
    [config |-> [cfg EXCEPT ![key] = value],
     file |-> save_config(f, [cfg EXCEPT ![key] = value], outcome)]

\* QSlider.setValue(value) on a slider of range 0..200: the value it holds
\* afterwards; valueChanged is emitted when that is not the value it held
setValue(value) == max(0, min(200, value))

\* new_value in adjust_brightness and adjust_contrast
new_value(current, delta) == max(0, min(200, current + delta))

\* on_settings_changed(): the four config_manager.set calls, with the
\* outcomes outs of their writes
on_settings_changed(cfg, f, self, outs) ==
    LET s1 == config_set(cfg, f, "brightness", self.current_brightness, outs[1])
        s2 == config_set(s1.config, s1.file, "contrast", self.current_contrast, outs[2])
        s3 == config_set(s2.config, s2.file, "grayscale", self.current_grayscale, outs[3])
    IN  config_set(s3.config, s3.file, "rgb", self.current_rgb, outs[4])

\* _apply_changes(): the settings the engine gets from the sliders
apply_changes(self, s) ==
    [self EXCEPT !.current_brightness = set_brightness(s.brightness),
                 !.current_contrast = set_contrast(s.contrast),
                 !.current_grayscale = set_grayscale(s.grayscale),
                 !.current_rgb = set_rgb(s.red, s.green, s.blue)]

\* The record of a call of GammaTool or of the MainWindow: current is the
\* value the engine had before it.
NCall(op, delta, current) == [op |-> op, delta |-> delta, current |-> current]

\* the engine call apply_settings(), made after the call of the setter prev
Applied(r, os, prev) ==
    [op |-> "apply_settings", arg |-> << >>, ret |-> Bool(r.ret), calls |-> r.calls,
     os |-> IF r.calls = << >> THEN None ELSE os, prev |-> prev]

\* GammaTool(): the ConfigManager has read config.json, the MainWindow has
\* set its sliders from it (load_settings), which starts the debounce timer
\* when a slider changes, and load_and_apply_settings has set the engine
NudgeInit ==
    /\ config \in [brightness : StartValues, contrast : StartValues,
                   grayscale : {0}, rgb : {DefaultRGB}]
    /\ config_file = config
    /\ sliders = [DefaultSliders EXCEPT !.brightness = setValue(config.brightness),
                                        !.contrast = setValue(config.contrast)]
    /\ debounce_timer = (sliders # DefaultSliders)
    /\ current_brightness = set_brightness(config.brightness)
    /\ current_contrast = set_contrast(config.contrast)
    /\ current_grayscale = set_grayscale(config.grayscale)
    /\ current_rgb = set_rgb(config.rgb.red, config.rgb.green, config.rgb.blue)
    /\ gamma_ramp_supported \in BOOLEAN
    /\ primary_device_name = None
    /\ default_ramp = IF gamma_ramp_supported THEN "saved" ELSE None
    /\ \E os \in OsOutcomes :
           g_last = Applied(apply_settings(gamma_ramp_supported, primary_device_name, os),
                            os, "set_rgb")
    /\ n_last = NCall("__init__", 0, 100)

\* GammaTool() on the default config.json, no handler called
NudgeIdle ==
    /\ config = DefaultDisplay
    /\ config_file = DefaultDisplay
    /\ sliders = DefaultSliders
    /\ debounce_timer = FALSE
    /\ n_last = NCall("__init__", 0, 100)

\* adjust_brightness(delta)
AdjustBrightness ==
    \E delta \in Deltas : \E os \in OsOutcomes : \E outcome \in ConfigWriteOutcomes :
        LET value == new_value(current_brightness, delta)
            s == config_set(config, config_file, "brightness", value, outcome)
        IN  /\ Becomes(assign(Self, "current_brightness", set_brightness(value)))
            /\ g_last' = Applied(apply_settings(gamma_ramp_supported,
                                                primary_device_name, os),
                                 os, "set_brightness")
            /\ sliders' = [sliders EXCEPT !.brightness = setValue(value)]
            /\ debounce_timer' = (debounce_timer \/ setValue(value) # sliders.brightness)
            /\ config' = s.config
            /\ config_file' = s.file
            /\ n_last' = NCall("adjust_brightness", delta, current_brightness)

\* adjust_contrast(delta)
AdjustContrast ==
    \E delta \in Deltas : \E os \in OsOutcomes : \E outcome \in ConfigWriteOutcomes :
        LET value == new_value(current_contrast, delta)
            s == config_set(config, config_file, "contrast", value, outcome)
        IN  /\ Becomes(assign(Self, "current_contrast", set_contrast(value)))
            /\ g_last' = Applied(apply_settings(gamma_ramp_supported,
                                                primary_device_name, os),
                                 os, "set_contrast")
            /\ config' = s.config
            /\ config_file' = s.file
            /\ n_last' = NCall("adjust_contrast", delta, current_contrast)
            /\ UNCHANGED <<sliders, debounce_timer>>

\* the debounce timer fires: _apply_changes(), and on_settings_changed()
\* when apply_settings returned True
DebounceTimeout ==
    /\ debounce_timer
    /\ \E os \in OsOutcomes : \E outs \in [1 .. 4 -> ConfigWriteOutcomes] :
        LET self == apply_changes(Self, sliders)
            r == apply_settings(gamma_ramp_supported, primary_device_name, os)
            s == on_settings_changed(config, config_file, self, outs)
        IN  /\ Becomes(self)
            /\ g_last' = Applied(r, os, "set_rgb")
            /\ config' = IF r.ret THEN s.config ELSE config
            /\ config_file' = IF r.ret THEN s.file ELSE config_file
            /\ debounce_timer' = FALSE
            /\ n_last' = NCall("_apply_changes", 0, current_brightness)
            /\ UNCHANGED sliders

----------------------------------------------------------------------------
(* The engine called from two threads: the UI thread (the debounce timer,
   the reset button, the tray menu) and the thread in which the keyboard
   library runs the hotkey callbacks GammaTool.register_hotkeys gave it *)

Callers == {"ui", "hook"}

\* The engine calls that reach _apply_gamma_ramp.
EngineCalls == {"apply_settings", "reset_to_default"}

\* what the call op does before _apply_gamma_ramp, with the OS calls it
\* would make
Before(op) ==
    IF op = "apply_settings"
    THEN apply_settings(gamma_ramp_supported, primary_device_name, "done")
         @@ [reset |-> FALSE]
    ELSE reset_to_default(gamma_ramp_supported, default_ramp, primary_device_name, "done")

\* the call op of caller t returns after the OS answered os (None: the OS
\* was not asked); reset says whether the settings are reset
Return(t, op, os, reset) ==
    /\ g_last' = GCall(op, << >>, Bool(os = "done"),
                       IF os = None THEN << >>
                       ELSE apply_gamma_ramp(primary_device_name, os).calls, os)
    /\ IF reset
       THEN DefaultSettings(current_brightness', current_contrast',
                            current_grayscale', current_rgb')
       ELSE UNCHANGED <<current_brightness, current_contrast, current_grayscale,
                        current_rgb>>
    /\ t_pc' = [t_pc EXCEPT ![t] = "idle"]
    /\ t_op' = [t_op EXCEPT ![t] = None]
    /\ t_os' = [t_os EXCEPT ![t] = None]
    /\ UNCHANGED <<gamma_ramp_supported, primary_device_name, default_ramp>>

\* no caller is in the engine
ThreadInit ==
    /\ t_pc = [t \in Callers |-> "idle"]
    /\ t_op = [t \in Callers |-> None]
    /\ t_os = [t \in Callers |-> None]

\* a caller calls apply_settings() or reset_to_default(): the call returns
\* at once when the engine does not reach _apply_gamma_ramp
Enter ==
    \E t \in Callers : \E op \in EngineCalls :
        /\ t_pc[t] = "idle"
        /\ IF Before(op).calls = << >>
           THEN Return(t, op, None, Before(op).reset)
           ELSE /\ t_pc' = [t_pc EXCEPT ![t] = "acquire"]
                /\ t_op' = [t_op EXCEPT ![t] = op]
                /\ UNCHANGED <<t_os, gamma_vars>>

\* hdc = CreateDCW(...) or GetDC(None); without a context the call returns
Acquire ==
    \E t \in Callers : \E hdc \in BOOLEAN :
        /\ t_pc[t] = "acquire"
        /\ IF hdc
           THEN /\ t_pc' = [t_pc EXCEPT ![t] = "set"]
                /\ UNCHANGED <<t_op, t_os, gamma_vars>>
           ELSE Return(t, t_op[t], "no_dc", FALSE)

\* success = SetDeviceGammaRamp(hdc, byref(ramp))
SetRamp ==
    \E t \in Callers : \E success \in BOOLEAN :
        /\ t_pc[t] = "set"
        /\ t_pc' = [t_pc EXCEPT ![t] = "release"]
        /\ t_os' = [t_os EXCEPT ![t] = IF success THEN "done" ELSE "refused"]
        /\ UNCHANGED <<t_op, gamma_vars>>

\* DeleteDC(hdc) or ReleaseDC(None, hdc), and the call returns
Release ==
    \E t \in Callers :
        /\ t_pc[t] = "release"
        /\ Return(t, t_op[t], t_os[t],
                  t_op[t] = "reset_to_default" /\ t_os[t] = "done")

----------------------------------------------------------------------------
(* Specifications *)

\* Settings dicts with values outside the ranges of the fields.
SOut == [brightness |-> 999, contrast |-> -10, grayscale |-> 101,
         rgb |-> [red |-> 256, green |-> 20, blue |-> 30]]

RangeInputs == {S1, SOut}

\* The variables of the other components, which a component leaves alone.
beside_preset == <<hotkey_vars, validate_vars, gamma_vars, snapshot_vars, ramp_vars, probe_vars, nudge_vars, thread_vars>>
beside_hotkey == <<preset_vars, validate_vars, gamma_vars, snapshot_vars, ramp_vars, probe_vars, nudge_vars, thread_vars>>
beside_validate == <<preset_vars, hotkey_vars, gamma_vars, snapshot_vars, ramp_vars, probe_vars, nudge_vars, thread_vars>>
beside_gamma == <<preset_vars, hotkey_vars, validate_vars, snapshot_vars, ramp_vars, probe_vars, nudge_vars, thread_vars>>
beside_snapshot == <<preset_vars, hotkey_vars, validate_vars, ramp_vars, probe_vars, nudge_vars, thread_vars>>
beside_ramp == <<preset_vars, hotkey_vars, validate_vars, gamma_vars, snapshot_vars, probe_vars, nudge_vars, thread_vars>>
beside_engine == <<preset_vars, hotkey_vars, validate_vars, snapshot_vars, probe_vars, nudge_vars, thread_vars>>
beside_probe == <<preset_vars, hotkey_vars, validate_vars, snapshot_vars, ramp_vars, nudge_vars, thread_vars>>
beside_nudge == <<preset_vars, hotkey_vars, validate_vars, snapshot_vars, ramp_vars, probe_vars, thread_vars>>
beside_thread == <<preset_vars, hotkey_vars, validate_vars, snapshot_vars, ramp_vars, probe_vars, nudge_vars>>

\* The preset store alone.
Init == PresetInit /\ HotkeyInit /\ ValidateIdle /\ GammaIdle /\ SnapshotIdle /\ RampIdle /\ ProbeIdle /\ NudgeIdle /\ ThreadInit

Next ==
    \/ SavePreset /\ UNCHANGED beside_preset
    \/ LoadPreset /\ UNCHANGED beside_preset
    \/ DeletePreset /\ UNCHANGED beside_preset
    \/ SwitchToNextPreset /\ UNCHANGED beside_preset
    \/ SetPresetHotkey /\ UNCHANGED beside_preset
    \/ MutateReturned /\ UNCHANGED beside_preset
    \/ Restart /\ UNCHANGED beside_preset

Spec == Init /\ [][Next]_vars

\* The preset store, saving settings of any values.
NextRange ==
    \/ SavePresetWith(RangeInputs) /\ UNCHANGED beside_preset
    \/ LoadPreset /\ UNCHANGED beside_preset
    \/ DeletePreset /\ UNCHANGED beside_preset
    \/ Restart /\ UNCHANGED beside_preset

SpecRange == Init /\ [][NextRange]_vars

\* The hotkey manager alone.
InitHotkey == PresetIdle /\ HotkeyInit /\ ValidateIdle /\ GammaIdle /\ SnapshotIdle /\ RampIdle /\ ProbeIdle /\ NudgeIdle /\ ThreadInit

NextHotkey ==
    \/ RegisterHotkey /\ UNCHANGED beside_hotkey
    \/ UnregisterHotkey /\ UNCHANGED beside_hotkey
    \/ UnregisterAll /\ UNCHANGED beside_hotkey
    \/ StartListening /\ UNCHANGED beside_hotkey
    \/ StopListening /\ UNCHANGED beside_hotkey

SpecHotkey == InitHotkey /\ [][NextHotkey]_vars

\* validate_hotkey alone.
InitValidate == PresetIdle /\ HotkeyInit /\ ValidateInit /\ GammaIdle /\ SnapshotIdle /\ RampIdle /\ ProbeIdle /\ NudgeIdle /\ ThreadInit

NextValidate == ValidateHotkey /\ UNCHANGED beside_validate

SpecValidate == InitValidate /\ [][NextValidate]_vars

\* The gamma engine alone.
InitGamma == PresetIdle /\ HotkeyInit /\ ValidateIdle /\ GammaInit /\ SnapshotIdle /\ RampIdle /\ ProbeIdle /\ NudgeIdle /\ ThreadInit

NextGamma ==
    \/ SetBrightness /\ UNCHANGED beside_gamma
    \/ SetContrast /\ UNCHANGED beside_gamma
    \/ SetGrayscale /\ UNCHANGED beside_gamma
    \/ SetRgb /\ UNCHANGED beside_gamma
    \/ ApplySettings /\ UNCHANGED beside_gamma
    \/ ResetToDefault /\ UNCHANGED beside_gamma

SpecGamma == InitGamma /\ [][NextGamma]_vars

\* The gamma engine and a caller that holds the settings it handed out.
NextSnapshot ==
    \/ SetBrightness /\ UNCHANGED <<beside_snapshot, g_held>>
    \/ SetRgbHeld /\ UNCHANGED beside_snapshot
    \/ GetCurrentSettings /\ UNCHANGED beside_snapshot
    \/ MutateSettings /\ UNCHANGED beside_snapshot

SpecSnapshot == InitGamma /\ [][NextSnapshot]_vars

\* _calculate_gamma_ramp alone.
InitRamp ==
    PresetIdle /\ HotkeyInit /\ ValidateIdle /\ GammaIdle /\ SnapshotIdle /\ RampInit /\ ProbeIdle /\ NudgeIdle /\ ThreadInit

NextRamp == CalculateGammaRamp /\ UNCHANGED beside_ramp

SpecRamp == InitRamp /\ [][NextRamp]_vars

\* _calculate_gamma_ramp called between operations of the gamma engine.
NextPure ==
    \/ SetBrightness /\ UNCHANGED <<beside_engine, ramp_vars>>
    \/ CalculateAgain /\ UNCHANGED beside_engine

InitPure ==
    PresetIdle /\ HotkeyInit /\ ValidateIdle /\ GammaIdle /\ SnapshotIdle /\ RampIdle /\ ProbeIdle /\ NudgeIdle /\ ThreadInit

SpecPure == InitPure /\ [][NextPure]_vars

\* GammaEngine() and the operations of the engine it constructs.
InitProbe ==
    PresetIdle /\ HotkeyInit /\ ValidateIdle /\ GammaIdle /\ SnapshotIdle /\ RampIdle /\ ProbeInit /\ NudgeIdle /\ ThreadInit

NextProbe ==
    \/ Construct /\ UNCHANGED beside_probe
    \/ constructed /\ SetBrightness /\ UNCHANGED beside_gamma
    \/ constructed /\ ApplySettings /\ UNCHANGED beside_gamma
    \/ constructed /\ ResetToDefault /\ UNCHANGED beside_gamma

SpecProbe == InitProbe /\ [][NextProbe]_vars

\* The hotkey handlers of GammaTool and the debounce timer of its window.
InitNudge ==
    PresetIdle /\ HotkeyInit /\ ValidateIdle /\ SnapshotIdle /\ RampIdle /\ ProbeIdle /\ NudgeInit /\ ThreadInit

NextNudge ==
    \/ AdjustBrightness /\ UNCHANGED beside_nudge
    \/ AdjustContrast /\ UNCHANGED beside_nudge
    \/ DebounceTimeout /\ UNCHANGED beside_nudge

SpecNudge == InitNudge /\ [][NextNudge]_vars

\* The engine called from the UI thread and from the thread of the hotkey
\* callbacks, one OS call at a time.
InitThreads ==
    PresetIdle /\ HotkeyInit /\ ValidateIdle /\ GammaInit /\ SnapshotIdle /\ RampIdle /\ ProbeIdle /\ NudgeIdle /\ ThreadInit

NextThreads ==
    \/ Enter /\ UNCHANGED beside_thread
    \/ Acquire /\ UNCHANGED beside_thread
    \/ SetRamp /\ UNCHANGED beside_thread
    \/ Release /\ UNCHANGED beside_thread

SpecThreads == InitThreads /\ [][NextThreads]_vars

----------------------------------------------------------------------------
(* Properties of the preset store *)

\* C1: in every reachable state of the store, current_preset is None or is
\* a key of presets.
C1_CurrentNamesPreset ==
    current_preset = None \/ Has(presets, current_preset)

\* a store constructed from a document written after a delete
C1_Witness ==
    /\ last.op = "init"
    /\ file.state = "doc"
    /\ Len(presets) = 2
    /\ Has(presets, current_preset)

\* C2: starting with no current preset, the k-th successive
\* switch_to_next_preset call selects and returns the preset at position
\* ((k-1) mod n) + 1 of the n names in insertion order.
C2_Cyclic ==
    streak >= 1 =>
        LET preset_names == get_preset_names(presets)
            P == preset_names[((streak - 1) % Len(preset_names)) + 1]
        IN  /\ current_preset = P
            /\ last.op = "switch" => last.ret = Dict(Lookup(presets, P))

\* the fourth call on three presets is back at the first
C2_Witness ==
    /\ streak = 4
    /\ Len(presets) = 3
    /\ last.op = "switch"
    /\ current_preset = presets[1].name

\* C3: switch_to_next_preset on a non-empty store whose current_preset is
\* None or names no preset selects the first name and makes it current; on
\* an empty store it returns None and changes neither the pointer nor the
\* presets.  No reachable store has a pointer that names no preset (C1), so
\* for that case the operation is also applied to every such pointer c on
\* the presets of each reachable store.
C3_SwitchFromUnset ==
    [][/\ last'.op = "switch" =>
            IF Len(presets) = 0
            THEN /\ last'.ret = NoneValue
                 /\ UNCHANGED <<presets, heap, current_preset, file>>
            ELSE (current_preset = None \/ ~Has(presets, current_preset)) =>
                    /\ current_preset' = presets[1].name
                    /\ last'.ret = Dict(Lookup(presets, presets[1].name))
                    /\ UNCHANGED <<presets, heap>>
       /\ \A c \in Names \ Keys(presets) :
             Len(presets) > 0 =>
                LET r == switch_to_next_preset(presets, c)
                IN  /\ r.current_preset = presets[1].name
                    /\ r.ret = Dict(Lookup(presets, presets[1].name))]_vars

\* a switch made with no current preset on a store of several presets
C3_Witness ==
    /\ last.op = "switch"
    /\ streak = 1
    /\ Len(presets) = 2
    /\ current_preset = presets[1].name

\* C4: delete_preset of an existing name removes exactly that entry; the
\* pointer becomes None if it was that name and is unchanged otherwise.
C4_DeleteExisting ==
    [][(last'.op = "delete" /\ Has(presets, last'.name)) =>
          LET name == last'.name
          IN  /\ last'.ret = Bool(TRUE)
              /\ get_preset_names(presets')
                    = SelectSeq(get_preset_names(presets), LAMBDA n : n # name)
              /\ \A n \in Keys(presets) \ {name} :
                    Deref(heap', Lookup(presets', n)) = Deref(heap, Lookup(presets, n))
              /\ current_preset' = IF current_preset = name THEN None ELSE current_preset]_vars

\* the current preset has just been deleted, the others are still there
C4_Witness ==
    /\ last.op = "delete"
    /\ last.ret = Bool(TRUE)
    /\ current_preset = None
    /\ Len(presets) = 2
    /\ file.state = "doc"
    /\ file.current_preset = None

\* C5: load_preset(name) after save_preset(name, S) with S complete, with no
\* save or delete of that name in between, returns the brightness,
\* contrast, grayscale and rgb of S.
C5_RoundTrip ==
    (last.op = "load" /\ last.ret.type = "dict" /\ saved[last.name].type = "dict") =>
        /\ \A k \in {"brightness", "contrast", "grayscale"} :
              last.ret.d[k] = saved[last.name].d[k]
        /\ heap[last.ret.d.rgb] = saved[last.name].d.rgb

\* C6: changing a field of the value load_preset returned, nested channel
\* values included, does not change any preset stored in the store.
C6_ReturnedCopyIsolated ==
    [][last'.op = "mutate" =>
          /\ presets' = presets
          /\ \A i \in DOMAIN presets :
                Deref(heap', presets'[i].val) = Deref(heap, presets[i].val)]_vars

\* C7: load_preset of a name that is not in the store returns None and
\* leaves the pointer, the presets and the file unchanged.
C7_LoadMissing ==
    [][(last'.op = "load" /\ ~Has(presets, last'.name)) =>
          /\ last'.ret = NoneValue
          /\ UNCHANGED <<presets, heap, current_preset, file>>]_vars

\* a load of a deleted name
C7_Witness ==
    /\ last.op = "load"
    /\ last.ret = NoneValue
    /\ ~Has(presets, last.name)

\* C8: delete_preset and set_preset_hotkey of a name that is not in the
\* store return False and leave the presets, the pointer and the file
\* unchanged.
C8_MissingName ==
    [][(last'.op \in {"delete", "set_hotkey"} /\ ~Has(presets, last'.name)) =>
          /\ last'.ret = Bool(FALSE)
          /\ UNCHANGED <<presets, heap, current_preset, file>>]_vars

\* a hotkey set for a deleted name
C8_Witness ==
    /\ last.op = "set_hotkey"
    /\ last.ret = Bool(FALSE)
    /\ ~Has(presets, last.name)

\* C9: save_preset keeps the stored hotkey of an existing preset when
\* settings has no hotkey, takes the hotkey of settings when it has one,
\* and stores "" for a new name without one.
C9_SaveHotkey ==
    [][last'.op = "save" =>
          LET name == last'.name
              settings == last'.arg
          IN  /\ Has(presets', name)
              /\ Lookup(presets', name).hotkey
                    = IF "hotkey" \in DOMAIN settings THEN settings.hotkey
                      ELSE IF Has(presets, name) THEN Lookup(presets, name).hotkey
                      ELSE ""]_vars

\* a save without hotkey over a preset that had one
C9_Witness ==
    /\ last.op = "save"
    /\ "hotkey" \notin DOMAIN last.arg
    /\ Lookup(presets, last.name).hotkey = "ctrl+alt+1"

\* C10: save_preset returns False when the write of the file fails, with the
\* new preset kept in memory, and True when the write succeeds.
C10_SaveReportsWrite ==
    last.op = "save" =>
        /\ Has(presets, last.name)
        /\ last.ret = Bool(last.write = "ok")

----------------------------------------------------------------------------
(* Properties of the values the preset store holds *)

\* C11: every preset held in the store, whatever settings were saved, has
\* brightness and contrast in 0..200, grayscale in 0..100 and each of red,
\* green and blue in 0..255.
C11_StoredInRange ==
    \A i \in DOMAIN presets :
        LET d == Deref(heap, presets[i].val)
        IN  /\ d.brightness \in 0 .. 200
            /\ d.contrast \in 0 .. 200
            /\ d.grayscale \in 0 .. 100
            /\ \A c \in {"red", "green", "blue"} : d.rgb[c] \in 0 .. 255

----------------------------------------------------------------------------
(* Properties of the hotkey manager *)

\* C12: a successful register_hotkey for a combo that is bound to another
\* callback leaves exactly one binding for the combo, bound to the new
\* callback, and exactly one listener hooked under the combo, the new one.
C12_RebindReplaces ==
    [][(/\ hk_last'.op = "register"
        /\ hk_last'.ret = Bool(TRUE)
        /\ Has(hotkeys, hk_last'.combo)
        /\ Lookup(hotkeys, hk_last'.combo) # hk_last'.callback)
       => (/\ Cardinality({i \in DOMAIN hotkeys' :
                            hotkeys'[i].name = hk_last'.combo}) = 1
           /\ Lookup(hotkeys', hk_last'.combo) = hk_last'.callback
           /\ listeners'[hk_last'.combo] = <<hk_last'.callback>>)]_vars

\* a combo bound to one callback has just been registered again, with
\* success, for the other callback
C12_Witness ==
    /\ hk_last.op = "register"
    /\ hk_last.ret = Bool(TRUE)
    /\ hk_last.bound \in Callbacks
    /\ hk_last.bound # hk_last.callback
    /\ Lookup(hotkeys, hk_last.combo) = hk_last.callback

\* C13: a register_hotkey call that returns False leaves the mapping from
\* combos to callbacks exactly as it was before the call, also when the
\* combo was bound before the call.
C13_FailedRegisterKeepsMapping ==
    [][(hk_last'.op = "register" /\ hk_last'.ret = Bool(FALSE))
       => hotkeys' = hotkeys]_vars

\* C14: register_hotkey for a combo that has no modifier returns False,
\* records no binding and does not call the keyboard library; for
\* "ctrl+alt+n" it returns True and records the binding when the OS takes
\* the hook.
C14_RejectsNoModifier ==
    /\ (/\ hk_last.op = "register"
         /\ \A i \in DOMAIN hk_last.combo :
                lower(strip(hk_last.combo[i])) \notin valid_modifiers)
        => (/\ hk_last.ret = Bool(FALSE)
            /\ ~is_hotkey_registered(hotkeys, hk_last.combo)
            /\ ~hk_last.attempted)
    /\ (hk_last.op = "register" /\ hk_last.combo = CtrlAltN /\ hk_last.os_ok)
        => (hk_last.ret = Bool(TRUE) /\ is_hotkey_registered(hotkeys, CtrlAltN))

\* C16: after a successful register_hotkey the mapping holds exactly one
\* binding whose combo equals the registered one up to letter case, and it
\* is bound to the registered callback.
C16_CaseInsensitiveKeys ==
    [][(hk_last'.op = "register" /\ hk_last'.ret = Bool(TRUE))
       => LET fold(combo) == [k \in DOMAIN combo |-> lower(combo[k])]
              same == {i \in DOMAIN hotkeys' :
                          fold(hotkeys'[i].name) = fold(hk_last'.combo)}
          IN  /\ Cardinality(same) = 1
              /\ \A i \in same : hotkeys'[i].val = hk_last'.callback]_vars

\* C17: in every reachable state of the hotkey manager, a non-empty mapping
\* implies that the listening flag is on.
C17_BoundImpliesListening ==
    hotkeys # << >> => is_listening

\* C18: stop_listening leaves the flag off and no binding; with no binding
\* before the call it changes nothing else; and calling it again in the
\* state it leaves gives that state again.
C18_StopIsSafe ==
    [][hk_last'.op = "stop"
       => (/\ is_listening' = FALSE
           /\ hotkeys' = << >>
           /\ (hotkeys = << >> => listeners' = listeners)
           /\ stop_listening(hotkeys', listeners')
                = [hotkeys |-> hotkeys', listeners |-> listeners',
                   is_listening |-> is_listening'])]_vars

\* stop_listening has been called twice in a row
C18_Witness ==
    /\ hk_last.op = "stop"
    /\ hk_last.prev = "stop"
    /\ hotkeys = << >>
    /\ ~is_listening

\* C19: unregister_all returns the number of bound combos whose removal
\* from the keyboard library succeeded, and when that is every bound combo
\* the mapping is empty afterwards; unregister_hotkey for a combo that is
\* not registered returns False and changes nothing.
C19_UnregisterCounts ==
    [][/\ hk_last'.op = "unregister_all"
          => LET removed == {i \in DOMAIN hotkeys :
                                listeners[hotkeys[i].name] # << >>}
             IN  /\ hk_last'.ret = Integer(Cardinality(removed))
                 /\ Cardinality(removed) = Len(hotkeys) => hotkeys' = << >>
                 /\ \A i \in removed :
                        Len(listeners'[hotkeys[i].name])
                            = Len(listeners[hotkeys[i].name]) - 1
       /\ (hk_last'.op = "unregister" /\ ~Has(hotkeys, hk_last'.combo))
          => (/\ hk_last'.ret = Bool(FALSE)
              /\ UNCHANGED <<hotkeys, listeners, is_listening>>)]_vars

\* unregister_all has just removed two bindings
C19_Witness ==
    /\ hk_last.op = "unregister_all"
    /\ hk_last.ret = Integer(2)
    /\ hotkeys = << >>

----------------------------------------------------------------------------
(* Properties of validate_hotkey *)

\* C15: validate_hotkey returns True exactly for the strings of two or more
\* parts in which every part before the last is, up to letter case and
\* surrounding blanks, one of ctrl, alt, shift, win, meta and the last part
\* is a printable character or one of up, down, left, right.
C15_ValidateGrammar ==
    v_result # NoneValue
    => LET parts == v_hotkey
           terminal == {"n", "N", "up", "down", "left", "right"}
           wellformed ==
               /\ Len(parts) >= 2
               /\ \A i \in 1 .. (Len(parts) - 1) :
                      lower(strip(parts[i])) \in valid_modifiers
               /\ strip(parts[Len(parts)]) \in terminal
       IN  v_result = Bool(wellformed)

----------------------------------------------------------------------------
(* Properties of the gamma engine's settings *)

\* C20: in every reachable state of the gamma engine brightness and
\* contrast are in 0..200, grayscale is in 0..100 and each channel is in
\* 0..255, and a setter leaves clamp(value, lo, hi) in its field.
C20_SettingsInRange ==
    LET clamp(v, lo, hi) == IF v < lo THEN lo ELSE IF v > hi THEN hi ELSE v
    IN  /\ current_brightness \in 0 .. 200
        /\ current_contrast \in 0 .. 200
        /\ current_grayscale \in 0 .. 100
        /\ \A c \in {"red", "green", "blue"} : current_rgb[c] \in 0 .. 255
        /\ g_last.op = "set_brightness"
            => current_brightness = clamp(g_last.arg[1], 0, 200)
        /\ g_last.op = "set_contrast"
            => current_contrast = clamp(g_last.arg[1], 0, 200)
        /\ g_last.op = "set_grayscale"
            => current_grayscale = clamp(g_last.arg[1], 0, 100)
        /\ g_last.op = "set_rgb"
            => current_rgb = [red |-> clamp(g_last.arg[1], 0, 255),
                              green |-> clamp(g_last.arg[2], 0, 255),
                              blue |-> clamp(g_last.arg[3], 0, 255)]

\* set_brightness(999) has just stored 200, in an engine whose other
\* settings were set and reset before
C20_Witness ==
    /\ g_last.op = "set_brightness"
    /\ g_last.arg = <<999>>
    /\ current_brightness = 200
    /\ current_contrast = 0
    /\ current_rgb.red = 255

----------------------------------------------------------------------------
(* Properties of the gamma engine's operations *)

\* C21: a setter makes no OS call and changes only its own setting: the
\* other settings, the supported flag, the chosen device and the saved
\* default ramp stay as they were.
C21_SettersChangeOwnField ==
    [][/\ g_last'.op \in {"set_brightness", "set_contrast", "set_grayscale", "set_rgb"}
          => (/\ g_last'.calls = << >>
              /\ UNCHANGED <<gamma_ramp_supported, primary_device_name, default_ramp>>)
       /\ g_last'.op = "set_brightness"
          => UNCHANGED <<current_contrast, current_grayscale, current_rgb>>
       /\ g_last'.op = "set_contrast"
          => UNCHANGED <<current_brightness, current_grayscale, current_rgb>>
       /\ g_last'.op = "set_grayscale"
          => UNCHANGED <<current_brightness, current_contrast, current_rgb>>
       /\ g_last'.op = "set_rgb"
          => UNCHANGED <<current_brightness, current_contrast, current_grayscale>>]_vars

\* set_rgb has just been called on an engine with another brightness and
\* contrast, a chosen device and a saved default ramp
C21_Witness ==
    /\ g_last.op = "set_rgb"
    /\ current_brightness = 150
    /\ current_contrast = 0
    /\ gamma_ramp_supported
    /\ primary_device_name = Display2
    /\ default_ramp = "saved"

\* C22: while the supported flag is off it stays off, and every
\* apply_settings and reset_to_default call returns False and makes no OS
\* call (no device context is asked for, no gamma ramp is set).
C22_UnsupportedShortCircuits ==
    [][~gamma_ramp_supported
       => (/\ ~gamma_ramp_supported'
           /\ g_last'.op \in {"apply_settings", "reset_to_default"}
              => (g_last'.ret = Bool(FALSE) /\ g_last'.calls = << >>))]_vars

\* apply_settings has been called, after a setter, on an engine that is
\* not supported
C22_Witness ==
    /\ ~gamma_ramp_supported
    /\ g_last.op = "apply_settings"
    /\ g_last.ret = Bool(FALSE)
    /\ current_brightness = 150

\* C23: apply_settings makes at most one SetDeviceGammaRamp call, returns
\* what that call answered (False when it made none) and leaves the
\* settings as they were, whether the ramp was set or not.
C23_ApplyReturnsOsResult ==
    [][g_last'.op = "apply_settings"
       => LET sets == {i \in DOMAIN g_last'.calls :
                          g_last'.calls[i] = "SetDeviceGammaRamp"}
          IN  /\ Cardinality(sets) <= 1
              /\ Cardinality(sets) = 1 => g_last'.ret = Bool(g_last'.os = "done")
              /\ Cardinality(sets) = 0 => g_last'.ret = Bool(FALSE)
              /\ UNCHANGED <<current_brightness, current_contrast,
                             current_grayscale, current_rgb>>]_vars

\* apply_settings has been refused by the OS on settings that are not the
\* defaults
C23_Witness ==
    /\ g_last.op = "apply_settings"
    /\ g_last.os = "refused"
    /\ g_last.ret = Bool(FALSE)
    /\ current_brightness = 150
    /\ current_rgb # DefaultRGB

\* C24: on a supported engine reset_to_default without a saved default
\* ramp returns False, makes no OS call and changes no setting; with one
\* it returns True exactly when the ramp was set, then with the settings at
\* 100, 100, 0, 255/255/255, and otherwise with the settings as they were.
C24_ResetSupported ==
    [][(gamma_ramp_supported /\ g_last'.op = "reset_to_default")
       => IF default_ramp = None
          THEN /\ g_last'.ret = Bool(FALSE)
               /\ g_last'.calls = << >>
               /\ UNCHANGED <<current_brightness, current_contrast,
                              current_grayscale, current_rgb>>
          ELSE /\ g_last'.ret = Bool(g_last'.os = "done")
               /\ IF g_last'.os = "done"
                  THEN /\ current_brightness' = 100
                       /\ current_contrast' = 100
                       /\ current_grayscale' = 0
                       /\ current_rgb' = [red |-> 255, green |-> 255, blue |-> 255]
                  ELSE UNCHANGED <<current_brightness, current_contrast,
                                   current_grayscale, current_rgb>>]_vars

\* reset_to_default has failed at the OS on a supported engine whose
\* settings are not the defaults
C24_Witness ==
    /\ gamma_ramp_supported
    /\ default_ramp = "saved"
    /\ g_last.op = "reset_to_default"
    /\ g_last.os = "refused"
    /\ current_brightness = 150

\* C25: on an engine that is not supported reset_to_default returns False
\* and leaves the settings at 100, 100, 0, 255/255/255, whatever they were.
C25_ResetUnsupported ==
    [][(~gamma_ramp_supported /\ g_last'.op = "reset_to_default")
       => (/\ g_last'.ret = Bool(FALSE)
           /\ current_brightness' = 100
           /\ current_contrast' = 100
           /\ current_grayscale' = 0
           /\ current_rgb' = [red |-> 255, green |-> 255, blue |-> 255])]_vars

\* reset_to_default has been called on an engine that is not supported,
\* right after a setter
C25_Witness ==
    /\ ~gamma_ramp_supported
    /\ g_last.op = "reset_to_default"
    /\ g_last.ret = Bool(FALSE)
    /\ g_last.prev \in {"set_brightness", "set_rgb"}
    /\ current_brightness = 100
    /\ current_rgb = DefaultRGB

\* C26: writing into the dict get_current_settings returned, into a
\* top-level field or into a channel of its rgb, changes no setting of the
\* engine, and a later setter call changes nothing in a dict returned
\* before.
C26_SettingsCopyIsolated ==
    [][/\ g_last'.op = "mutate"
          => UNCHANGED <<current_brightness, current_contrast,
                         current_grayscale, current_rgb>>
       /\ (g_last'.op \in {"set_brightness", "set_rgb"} /\ g_held # NoneValue)
          => (g_held' # NoneValue /\ g_held'.d = g_held.d)]_vars

\* the caller has written into the red channel of the dict it was handed,
\* and the engine's red is not what was written
C26_Witness ==
    /\ g_last.op = "mutate"
    /\ g_last.arg = <<"red", 1>>
    /\ g_held.d.rgb.red = 1
    /\ current_rgb.red # 1

----------------------------------------------------------------------------
(* Properties of the gamma ramp *)

Computed == ramp_entry # NoneValue

Black == [type |-> "RAMP", Red |-> 0, Green |-> 0, Blue |-> 0]

\* C27: with brightness 0 every entry of the ramp _calculate_gamma_ramp
\* returns is 0 in the three channels, whatever the contrast, the grayscale
\* and the channel values are.
C27_ZeroBrightnessIsBlack ==
    (Computed /\ ramp_args[1] = 0) => ramp_entry = Black

\* brightness 0 with contrast 200: the last entry, which the contrast step
\* alone takes above 1.0
C27_Witness ==
    /\ Computed
    /\ ramp_args = <<0, 200, 0, 255, 128, 10>>
    /\ ramp_index = 255
    /\ ramp_entry = Black

\* C28 as stated: under the default settings entry i of every channel is
\* i * 257.
C28_DefaultRampIsIdentity ==
    (Computed /\ ramp_args = DefaultArgs) =>
        /\ ramp_entry.Red = ramp_index * 257
        /\ ramp_entry.Green = ramp_index * 257
        /\ ramp_entry.Blue = ramp_index * 257

\* entry i + 1 of the red channel under the default settings
NextDefault == calculate_gamma_ramp(100, 100, 0, 255, 255, 255, ramp_index + 1).Red

\* C28: under the default settings entry i is the same in the three
\* channels and is i * 257 or one less, entry 0 is 0, entry 255 is 65535,
\* and every entry is below the next one.
C28_DefaultRampNearIdentity ==
    (Computed /\ ramp_args = DefaultArgs) =>
        /\ ramp_entry.Red \in {ramp_index * 257 - 1, ramp_index * 257}
        /\ ramp_entry.Green = ramp_entry.Red
        /\ ramp_entry.Blue = ramp_entry.Red
        /\ ramp_index = 0 => ramp_entry.Red = 0
        /\ ramp_index = 255 => ramp_entry.Red = 65535
        /\ ramp_index < 255 => ramp_entry.Red < NextDefault

\* entry 1 under the default settings: 256, not 257
C28_Witness ==
    /\ Computed
    /\ ramp_args = DefaultArgs
    /\ ramp_index = 1
    /\ ramp_entry.Red = 256

\* C29: with grayscale 100 every entry of the ramp is 0 in the three
\* channels, whatever the brightness, the contrast and the channel values
\* are.
C29_FullGrayscaleIsBlack ==
    (Computed /\ ramp_args[3] = 100) => ramp_entry = Black

\* grayscale 100 with brightness 200 and contrast 200: the last entry,
\* whose base value is 65535
C29_Witness ==
    /\ Computed
    /\ ramp_args = <<200, 200, 100, 255, 128, 10>>
    /\ ramp_index = 255
    /\ ramp_entry = Black

\* the settings of the engine
Settings ==
    <<current_brightness, current_contrast, current_grayscale, current_rgb,
      gamma_ramp_supported, primary_device_name, default_ramp>>

----------------------------------------------------------------------------
(* Properties of the construction of the gamma engine *)

\* C32: once GammaEngine() has returned, no operation changes
\* _gamma_ramp_supported, _primary_device_name or _default_ramp; the default
\* ramp is written only by GammaEngine(), and only when the probe found
\* support and the read of the ramp succeeded.
C32_ProbeResultIsFixed ==
    [][/\ constructed =>
            UNCHANGED <<gamma_ramp_supported, primary_device_name, default_ramp>>
       /\ default_ramp' # default_ramp =>
            /\ ~constructed /\ constructed'
            /\ default_ramp = None
            /\ gamma_ramp_supported'
            /\ os_save = "done"]_vars

\* the default ramp of another display was saved, and a reset the OS
\* refused came after an apply
C32_Witness ==
    /\ constructed
    /\ gamma_ramp_supported
    /\ primary_device_name # None
    /\ default_ramp = "saved"
    /\ g_last.op = "reset_to_default"
    /\ g_last.os = "refused"
    /\ g_last.prev = "apply_settings"

\* the displays attached to the desktop whose trial read succeeds
Capable == {i \in 1 .. Len(displays) : displays[i] = "done"}

\* the displays are listed only after the trial read on the default
\* display failed
Enumerated == os_default = "refused"

\* C33: after the probe, supported is true exactly when the trial read on
\* the default display succeeded or, the displays being listed, the trial
\* read on an attached one succeeded; the device is None if the default
\* read succeeded, otherwise the first attached display in the list whose
\* read succeeded.
C33_ProbeChoosesFirstCapable ==
    constructed =>
        /\ gamma_ramp_supported <=> (os_default = "done" \/ (Enumerated /\ Capable # {}))
        /\ primary_device_name =
              IF Enumerated /\ Capable # {}
              THEN DeviceNames[CHOOSE i \in Capable : \A j \in Capable : i <= j]
              ELSE None

\* two displays take a gamma ramp and the first was chosen
C33_Witness ==
    /\ constructed
    /\ os_default = "refused"
    /\ displays = <<"done", "done">>
    /\ primary_device_name = DeviceNames[1]

\* the device contexts held, youngest last, and whether every call so far
\* was made on a context held and every release was the one that goes with
\* the acquisition: h after the call ev
Handled(h, ev) ==
    IF ev.call \in {"GetDC", "CreateDCW"}
    THEN [open |-> IF ev.ret THEN Append(h.open, ev.call) ELSE h.open, ok |-> h.ok]
    ELSE IF ev.call \in {"ReleaseDC", "DeleteDC"}
    THEN [open |-> IF h.open = << >> THEN << >> ELSE SubSeq(h.open, 1, Len(h.open) - 1),
          ok |-> /\ h.ok
                 /\ h.open # << >>
                 /\ h.open[Len(h.open)] = (IF ev.call = "DeleteDC" THEN "CreateDCW" ELSE "GetDC")]
    ELSE [open |-> h.open, ok |-> h.ok /\ h.open # << >>]

\* the same after the calls up to the i-th
RECURSIVE Handles(_, _)
Handles(calls, i) ==
    IF i = 0
    THEN [open |-> << >>, ok |-> TRUE]
    ELSE Handled(Handles(calls, i - 1), calls[i])

\* every context acquired during the calls was released, with its own
\* primitive, by the end of them
Balanced(calls) ==
    /\ Handles(calls, Len(calls)).ok
    /\ Handles(calls, Len(calls)).open = << >>

\* the calls of the last operation of the engine, as events
LastEvents ==
    [i \in 1 .. Len(g_last.calls) |->
        Ev(g_last.calls[i], primary_device_name,
           IF i = 1 THEN g_last.os # "no_dc"
           ELSE IF g_last.calls[i] = "SetDeviceGammaRamp" THEN g_last.os = "done"
           ELSE TRUE)]

----------------------------------------------------------------------------
(* Properties of the presets file and of the order of the presets *)

\* the presets p with their rgb objects written out
ByValue(p, h) ==
    [i \in DOMAIN p |-> [name |-> p[i].name, val |-> Deref(h, p[i].val)]]

\* a PresetManager constructed on the file as it is
Reloaded == load_presets(file, "ok")

\* C35: after save_preset, load_preset, delete_preset or set_preset_hotkey
\* has written the file, the document holds current_preset and the presets
\* as they are in memory, and a PresetManager constructed on it has the
\* same presets in the same order and the same current_preset.
C35_FileIsTheStore ==
    (last.write = "ok" /\ last.op \in {"save", "load", "delete", "set_hotkey"}) =>
        /\ file.state = "doc"
        /\ file.current_preset = current_preset
        /\ file.presets = ByValue(presets, heap)
        /\ ByValue(Reloaded.presets, Reloaded.heap) = ByValue(presets, heap)
        /\ get_preset_names(Reloaded.presets) = get_preset_names(presets)
        /\ Reloaded.current_preset = current_preset

\* the current preset has been deleted and the file written, after an
\* earlier write had failed
C35_Witness ==
    /\ last.op = "delete"
    /\ last.write = "ok"
    /\ last.ret = Bool(TRUE)
    /\ current_preset = None
    /\ failures = 1
    /\ Len(presets) = 2

\* the names without name, in their order
Without(names, name) == SelectSeq(names, LAMBDA n : n # name)

\* C36: get_preset_names() is the order of first insertion: save_preset of
\* a name that exists leaves the names as they are, save_preset of a new
\* name appends it (so a name deleted and saved again is the last one),
\* delete_preset of a name that exists removes it and leaves the others in
\* their order, and no name is listed twice.
C36_NamesInInsertionOrder ==
    [][/\ (last'.op = "save" /\ Has(presets, last'.name)) =>
            get_preset_names(presets') = get_preset_names(presets)
       /\ (last'.op = "save" /\ ~Has(presets, last'.name)) =>
            get_preset_names(presets') = Append(get_preset_names(presets), last'.name)
       /\ (last'.op = "save" /\ last.op = "delete" /\ last.name = last'.name
             /\ last.ret = Bool(TRUE)) =>
            get_preset_names(presets')[Len(presets')] = last'.name
       /\ (last'.op = "delete" /\ Has(presets, last'.name)) =>
            get_preset_names(presets') = Without(get_preset_names(presets), last'.name)
       /\ Cardinality(Keys(presets')) = Len(presets')]_vars

\* a name that was in the middle has been deleted and saved again
C36_Witness ==
    /\ last.op = "save"
    /\ last.name = "Night"
    /\ get_preset_names(presets) = <<"Default", "Reading", "Night">>

\* C37: save_preset and set_preset_hotkey leave current_preset as it is,
\* load_preset and switch_to_next_preset leave the presets as they are, and
\* current_preset changes only when load_preset (called directly or by
\* switch_to_next_preset) finds the preset, to its name, and when
\* delete_preset deletes the current preset, to None.
C37_PointerAndPresetsFrames ==
    [][/\ last'.op \in {"save", "set_hotkey"} => current_preset' = current_preset
       /\ last'.op \in {"load", "switch"} =>
            ByValue(presets', heap') = ByValue(presets, heap)
       /\ (last'.op # "init" /\ current_preset' # current_preset) =>
            \/ /\ last'.op \in {"load", "switch"}
               /\ last'.ret.type = "dict"
               /\ Has(presets, current_preset')
            \/ /\ last'.op = "delete"
               /\ last'.name = current_preset
               /\ last'.ret = Bool(TRUE)
               /\ current_preset' = None]_vars

\* the current preset has just been saved again
C37_Witness ==
    /\ last.op = "save"
    /\ last.name = current_preset
    /\ last.write = "ok"

----------------------------------------------------------------------------
(* Properties of the hotkey manager and the listeners it has hooked *)

\* the string combo with its letters in lower case
casefold(combo) == [k \in DOMAIN combo |-> lower(combo[k])]

\* the listeners hooked under the strings that are the combo c up to
\* letter case, as pairs of the string and the position under it
Hooked(c) ==
    {dk \in UNION {{<<d, k>> : k \in DOMAIN listeners[d]} : d \in Combos} :
        casefold(dk[1]) = casefold(c)}

\* C38: in every reachable state of the hotkey manager the combos in
\* _hotkeys are the combos that have a listener hooked, and no combo has
\* more than one listener hooked; a combo is a string up to letter case.
C38_OneListenerPerCombo ==
    /\ {casefold(c) : c \in Keys(hotkeys)}
         = {casefold(c) : c \in {d \in Combos : listeners[d] # << >>}}
    /\ \A c \in Combos : Cardinality(Hooked(c)) <= 1

----------------------------------------------------------------------------
(* Properties of the entries of the ramp *)

\* values of a channel below c
Lowered(c) == {c - 1, c \div 2, 0} \cap (0 .. (c - 1))

\* the entry stored for a channel of value c at an index whose base value is
\* base, with next the base value of the index after it
EntryInOrder(stored, base, next, grayscale, c) ==
    /\ channel_int(base, grayscale, c) \in 0 .. 65535
    /\ stored = channel_int(base, grayscale, c)
    /\ stored <= channel_value(next, grayscale, c)
    /\ \A d \in Lowered(c) : channel_value(base, grayscale, d) <= stored

EntriesInOrder(entry, base, next, grayscale, r, g, b) ==
    /\ EntryInOrder(entry.Red, base, next, grayscale, r)
    /\ EntryInOrder(entry.Green, base, next, grayscale, g)
    /\ EntryInOrder(entry.Blue, base, next, grayscale, b)

\* C39: for settings within their ranges, the integer assigned to every
\* entry of the ramp is in 0..65535, so the c_ushort holds it unchanged,
\* the entry at index i is not above the entry at index i + 1 of the same
\* channel, and the entry of a channel is not below what it is for a lower
\* value of that channel.
C39_RampEntriesInRangeAndOrder ==
    ramp_entry # NoneValue =>
        EntriesInOrder(ramp_entry,
                       base_value(ramp_args[1], ramp_args[2], ramp_index),
                       base_value(ramp_args[1], ramp_args[2], min(ramp_index + 1, 255)),
                       ramp_args[3], ramp_args[4], ramp_args[5], ramp_args[6])

\* the last entry for the largest brightness and contrast
C39_Witness ==
    /\ ramp_args = <<200, 200, 0, 255, 128, 10>>
    /\ ramp_index = 255
    /\ ramp_entry # NoneValue
    /\ ramp_entry.Red = 65535
    /\ ramp_entry.Blue < ramp_entry.Green

----------------------------------------------------------------------------
(* Properties of the hotkey handlers of GammaTool *)

\* n limited to 0..200
Clamped(n) == IF n < 0 THEN 0 ELSE IF n > 200 THEN 200 ELSE n

\* C40: adjust_brightness and adjust_contrast set the value of the engine
\* to the old value plus delta limited to 0..200 and set the same value in
\* the display settings of the configuration, and whatever handlers have
\* run, one at a time, the brightness and the contrast of the configuration
\* are those of the engine and are in 0..200.
C40_NudgeKeepsConfigInStep ==
    /\ n_last.op = "adjust_brightness" =>
            current_brightness = Clamped(n_last.current + n_last.delta)
    /\ n_last.op = "adjust_contrast" =>
            current_contrast = Clamped(n_last.current + n_last.delta)
    /\ config.brightness = current_brightness
    /\ config.contrast = current_contrast
    /\ config.brightness \in 0 .. 200
    /\ config.contrast \in 0 .. 200

----------------------------------------------------------------------------
(* Properties of the engine called from two threads *)

\* the callers that hold a device context: between the acquisition and the
\* release
Holding == {t \in Callers : t_pc[t] \in {"set", "release"}}

\* C31: with the hotkey callbacks calling the engine from the thread of the
\* keyboard hook while the UI thread calls it too, no two callers are
\* between the acquisition of the device context and its release at the
\* same time.
C31_OneCallerHoldsDevice == Cardinality(Holding) <= 1

====
